---- MODULE Spec2Model ----
(***************************************************************************)
(* Model of the tron reminder engine: the schedule calculus                *)
(* (reminder/store.go CalculateNextRun and its parsers), the reminder      *)
(* store (reminder/store.go Store), the reminder poller                    *)
(* (reminder/scheduler.go Scheduler) and the orchestration loop            *)
(* (bot/handler.go Handler.HandleMessage).                                 *)
(*                                                                         *)
(* Time is counted in whole seconds from the model epoch                   *)
(* 2024-03-09T00:00:00Z.  Strings that the program parses are sequences    *)
(* of one-character strings, so that parsing is computed and not assumed.  *)
(***************************************************************************)
EXTENDS Integers, Sequences, FiniteSets, TLC

\* ------------------------------------------------------------------------
\* Text helpers (strconv.Atoi, strings.Split, strings.Fields)
\* ------------------------------------------------------------------------

Digits == {"0", "1", "2", "3", "4", "5", "6", "7", "8", "9"}

DigitVal(c) ==
    CASE c = "0" -> 0 [] c = "1" -> 1 [] c = "2" -> 2 [] c = "3" -> 3
      [] c = "4" -> 4 [] c = "5" -> 5 [] c = "6" -> 6 [] c = "7" -> 7
      [] c = "8" -> 8 [] c = "9" -> 9 [] OTHER -> 0

\* The decimal digit of n.
DigitChar(n) == CHOOSE c \in Digits : DigitVal(c) = n

IsDigits(s) == Len(s) > 0 /\ \A i \in 1..Len(s) : s[i] \in Digits

RECURSIVE DigitsVal(_)
DigitsVal(s) ==
    IF Len(s) = 0 THEN 0
    ELSE 10 * DigitsVal(SubSeq(s, 1, Len(s) - 1)) + DigitVal(s[Len(s)])

Err(msg) == [ok |-> FALSE, err |-> msg]

Ok(v) == [ok |-> TRUE, val |-> v]

\* strconv.Atoi: an optional sign followed by at least one decimal digit.
Atoi(s) ==
    IF Len(s) > 0 /\ s[1] \in {"+", "-"}
    THEN IF IsDigits(Tail(s))
         THEN Ok(IF s[1] = "-" THEN 0 - DigitsVal(Tail(s)) ELSE DigitsVal(Tail(s)))
         ELSE Err("atoi")
    ELSE IF IsDigits(s) THEN Ok(DigitsVal(s)) ELSE Err("atoi")

\* Index of the first occurrence of character c in s, 0 when absent.
RECURSIVE IndexOf(_, _, _)
IndexOf(s, c, i) ==
    IF i > Len(s) THEN 0
    ELSE IF s[i] = c THEN i ELSE IndexOf(s, c, i + 1)

\* strings.Split(s, sep) for a one-character separator.
RECURSIVE Split(_, _)
Split(s, sep) ==
    LET i == IndexOf(s, sep, 1) IN
    IF i = 0 THEN <<s>>
    ELSE <<SubSeq(s, 1, i - 1)>> \o Split(SubSeq(s, i + 1, Len(s)), sep)

\* strings.SplitN(s, sep, 2): split at the first separator only.
SplitN2(s, sep) ==
    LET i == IndexOf(s, sep, 1) IN
    IF i = 0 THEN <<s>>
    ELSE <<SubSeq(s, 1, i - 1), SubSeq(s, i + 1, Len(s))>>

\* strings.Fields: the space-separated non-empty fields.
Fields(s) == SelectSeq(Split(s, " "), LAMBDA f : Len(f) > 0)

\* ------------------------------------------------------------------------
\* Time: seconds from the model epoch, time zones, time.Date
\* ------------------------------------------------------------------------

Minute == 60

Hour == 3600

Day == 24 * Hour

\* 2024-03-10T10:00:00Z, when America/Los_Angeles goes from PST to PDT.
DSTStart == 122400

\* 2024-11-03T09:00:00Z, when America/Los_Angeles goes back to PST.
DSTEnd == 20682000

PST == 0 - 28800

PDT == 0 - 25200

FarPast == 0 - 2000000000

FarFuture == 2000000000

DefaultTimezone == "America/Los_Angeles"

\* time.LoadLocation with the fallback of CalculateNextRun: a zone name the
\* tz database does not know yields UTC.
LoadLocation(timezone) ==
    IF timezone \in {"America/Los_Angeles", "UTC"} THEN timezone ELSE "UTC"

\* Location.lookup: the zone in force at instant t, with the interval
\* [start, end) during which it is in force.
Lookup(loc, t) ==
    IF loc = "America/Los_Angeles"
    THEN IF t < DSTStart THEN [offset |-> PST, start |-> FarPast, end |-> DSTStart]
         ELSE IF t < DSTEnd THEN [offset |-> PDT, start |-> DSTStart, end |-> DSTEnd]
         ELSE [offset |-> PST, start |-> DSTEnd, end |-> FarFuture]
    ELSE [offset |-> 0, start |-> FarPast, end |-> FarFuture]

\* The wall clock of instant t in loc, as seconds from the epoch's midnight.
Wall(loc, t) == t + Lookup(loc, t).offset

\* time.Date(..., loc) for a wall clock given in seconds: the instant that
\* shows this wall clock in loc, resolved the way time.Date resolves it.
DateWall(wall, loc) ==
    LET z == Lookup(loc, wall) IN
    IF z.offset = 0 THEN wall
    ELSE LET utc == wall - z.offset
             off == IF utc < z.start \/ utc >= z.end
                    THEN Lookup(loc, utc).offset
                    ELSE z.offset
         IN wall - off

IsLeap(y) == (y % 4 = 0 /\ y % 100 # 0) \/ y % 400 = 0

DaysIn(y, m) ==
    IF m = 2 THEN (IF IsLeap(y) THEN 29 ELSE 28)
    ELSE IF m \in {4, 6, 9, 11} THEN 30 ELSE 31

\* Days from 1970-01-01 to the civil date y-m-d.
DaysFromCivil(y, m, d) ==
    LET yy  == IF m <= 2 THEN y - 1 ELSE y
        era == yy \div 400
        yoe == yy - era * 400
        mp  == IF m > 2 THEN m - 3 ELSE m + 9
        doy == (153 * mp + 2) \div 5 + d - 1
        doe == yoe * 365 + yoe \div 4 - yoe \div 100 + doy
    IN era * 146097 + doe - 719468

\* time.Date(y, m, d, h, mi, s, 0, loc)
Date(y, m, d, h, mi, s, loc) ==
    DateWall((DaysFromCivil(y, m, d) - DaysFromCivil(2024, 3, 9)) * Day + h * Hour + mi * Minute + s, loc)

\* ------------------------------------------------------------------------
\* Schedule calculus (reminder/store.go)
\* ------------------------------------------------------------------------

\* time.ParseInLocation for the four layouts of parseOnce, which differ in
\* the separator between date and time and in whether seconds are present.
ParseInLocation(sep, withSeconds, value, loc) ==
    LET n == Len(value)
        num(a, b) == SubSeq(value, a, b)
        \* the hour field "15" accepts one or two digits
        hl == IF n >= 13 /\ value[12] \in Digits /\ value[13] \in Digits THEN 2 ELSE 1
        p  == 11 + hl
        total == IF withSeconds THEN p + 6 ELSE p + 3
    IN
    IF n # total THEN Err("parse")
    ELSE IF ~ (/\ IsDigits(num(1, 4)) /\ value[5] = "-"
               /\ IsDigits(num(6, 7)) /\ value[8] = "-"
               /\ IsDigits(num(9, 10)) /\ value[11] = sep
               /\ IsDigits(num(12, p)) /\ value[p + 1] = ":"
               /\ IsDigits(num(p + 2, p + 3))
               /\ (withSeconds => value[p + 4] = ":" /\ IsDigits(num(p + 5, p + 6))))
    THEN Err("parse")
    ELSE LET y  == DigitsVal(num(1, 4))
             m  == DigitsVal(num(6, 7))
             d  == DigitsVal(num(9, 10))
             h  == DigitsVal(num(12, p))
             mi == DigitsVal(num(p + 2, p + 3))
             s  == IF withSeconds THEN DigitsVal(num(p + 5, p + 6)) ELSE 0
         IN IF m < 1 \/ m > 12 \/ d < 1 \/ h > 23 \/ mi > 59 \/ s > 59
            THEN Err("range")
            ELSE IF d > DaysIn(y, m) THEN Err("range")
            ELSE Ok(Date(y, m, d, h, mi, s, loc))

parseOnce(value, loc) ==
    LET f1 == ParseInLocation("T", TRUE, value, loc)
        f2 == ParseInLocation("T", FALSE, value, loc)
        f3 == ParseInLocation(" ", TRUE, value, loc)
        f4 == ParseInLocation(" ", FALSE, value, loc)
    IN IF f1.ok THEN f1
       ELSE IF f2.ok THEN f2
       ELSE IF f3.ok THEN f3
       ELSE IF f4.ok THEN f4
       ELSE Err("invalid once format")

parseDaily(value, now, loc) ==
    LET parts == Split(value, ":") IN
    IF Len(parts) # 2 THEN Err("invalid daily format")
    ELSE LET hour == Atoi(parts[1]) IN
         IF ~hour.ok \/ hour.val < 0 \/ hour.val > 23 THEN Err("invalid hour")
         ELSE LET min == Atoi(parts[2]) IN
              IF ~min.ok \/ min.val < 0 \/ min.val > 59 THEN Err("invalid minute")
              ELSE LET today == (Wall(loc, now) \div Day) * Day
                       next  == DateWall(today + hour.val * Hour + min.val * Minute, loc)
                   IN Ok(IF ~(next > now) THEN next + 24 * Hour ELSE next)

parseHourly(value, now, loc) ==
    LET min == Atoi(value) IN
    IF ~min.ok \/ min.val < 0 \/ min.val > 59 THEN Err("invalid minute")
    ELSE LET thisHour == (Wall(loc, now) \div Hour) * Hour
             next     == DateWall(thisHour + min.val * Minute, loc)
         IN Ok(IF ~(next > now) THEN next + Hour ELSE next)

\* Length of the longest prefix of s made of digits (isDigit = TRUE) or of
\* non-digits (isDigit = FALSE).
RECURSIVE PrefixLen(_, _, _)
PrefixLen(s, isDigit, i) ==
    IF i > Len(s) THEN Len(s)
    ELSE IF (s[i] \in Digits) = isDigit THEN PrefixLen(s, isDigit, i + 1)
    ELSE i - 1

UnitSeconds(u) ==
    IF u = <<"s">> THEN 1
    ELSE IF u = <<"m">> THEN Minute
    ELSE IF u = <<"h">> THEN Hour
    ELSE 0

\* The groups "<digits><unit>" of time.ParseDuration, one after the other.
RECURSIVE DurationGroups(_)
DurationGroups(s) ==
    IF Len(s) = 0 THEN Ok(0)
    ELSE LET nd == PrefixLen(s, TRUE, 1) IN
         IF nd = 0 THEN Err("invalid duration")
         ELSE LET rest == SubSeq(s, nd + 1, Len(s))
                  nu   == PrefixLen(rest, FALSE, 1)
                  unit == SubSeq(rest, 1, nu)
              IN IF nu = 0 THEN Err("missing unit")
                 ELSE IF UnitSeconds(unit) = 0 THEN Err("unknown unit")
                 ELSE LET more == DurationGroups(SubSeq(rest, nu + 1, Len(rest))) IN
                      IF ~more.ok THEN more
                      ELSE Ok(DigitsVal(SubSeq(s, 1, nd)) * UnitSeconds(unit) + more.val)

\* time.ParseDuration for whole-second durations written with the units
\* s, m and h (fractions and sub-second units are outside the model's
\* alphabet).
ParseDuration(value) ==
    LET neg  == Len(value) > 0 /\ value[1] = "-"
        body == IF Len(value) > 0 /\ value[1] \in {"+", "-"} THEN Tail(value) ELSE value
    IN IF body = <<"0">> THEN Ok(0)
       ELSE IF Len(body) = 0 THEN Err("invalid duration")
       ELSE LET g == DurationGroups(body) IN
            IF ~g.ok THEN g
            ELSE Ok(IF neg THEN 0 - g.val ELSE g.val)

\* parseInterval rejecting negative durations only.
parseIntervalAllowingZero(value, now) ==
    LET dur == ParseDuration(value) IN
    IF ~dur.ok THEN Err("invalid interval")
    ELSE IF dur.val < 0 THEN Err("interval must be positive")
    ELSE Ok(now + dur.val)

parseInterval(value, now) ==
    LET dur == ParseDuration(value) IN
    IF ~dur.ok THEN Err("invalid interval")
    ELSE IF dur.val <= 0 THEN Err("interval must be positive")
    ELSE Ok(now + dur.val)

Star == 0 - 1

\* One field of a cron expression: "*" or a number within [lo, hi].
CronField(f, lo, hi) ==
    IF f = <<"*">> THEN Ok(Star)
    ELSE IF IsDigits(f) /\ DigitsVal(f) >= lo /\ DigitsVal(f) <= hi THEN Ok(DigitsVal(f))
    ELSE Err("cron field")

\* Schedule.Next on the wall clock: the first whole minute strictly after
\* wall whose minute and hour match the fields m and h.
CronNext(wall, m, h) ==
    LET base     == (wall \div Minute + 1) * Minute
        hourBase == (base \div Hour) * Hour
        dayBase  == (base \div Day) * Day
    IN
    IF h = Star
    THEN IF m = Star THEN base
         ELSE LET c == hourBase + m * Minute IN IF c < base THEN c + Hour ELSE c
    ELSE IF m = Star
         THEN LET lo == dayBase + h * Hour
                  hi == lo + Hour - Minute
              IN IF base > hi THEN lo + Day ELSE IF base < lo THEN lo ELSE base
         ELSE LET c == dayBase + h * Hour + m * Minute IN IF c < base THEN c + Day ELSE c

\* parseCron for the expressions "M H * * *" (M, H a number or "*"); the
\* day and month fields are parsed and range-checked, and only "*" is a
\* modelled input for them.
parseCron(value, now, loc) ==
    LET fs == Fields(value) IN
    IF Len(fs) # 5 THEN Err("invalid cron expression")
    ELSE LET mi  == CronField(fs[1], 0, 59)
             hr  == CronField(fs[2], 0, 23)
             dom == CronField(fs[3], 1, 31)
             mon == CronField(fs[4], 1, 12)
             dow == CronField(fs[5], 0, 6)
         IN IF ~(mi.ok /\ hr.ok /\ dom.ok /\ mon.ok /\ dow.ok)
            THEN Err("invalid cron expression")
            ELSE Ok(DateWall(CronNext(Wall(loc, now), mi.val, hr.val), loc))

\* CalculateNextRun refusing a result that is not after from.
CalculateNextRunRejectingPast(scheduleType, scheduleValue, timezone, from) ==
    LET loc == LoadLocation(timezone)
        r   == CASE scheduleType = "once"     -> parseOnce(scheduleValue, loc)
                 [] scheduleType = "daily"    -> parseDaily(scheduleValue, from, loc)
                 [] scheduleType = "hourly"   -> parseHourly(scheduleValue, from, loc)
                 [] scheduleType = "interval" -> parseInterval(scheduleValue, from)
                 [] scheduleType = "cron"     -> parseCron(scheduleValue, from, loc)
                 [] OTHER                     -> Err("unknown schedule type")
    IN IF r.ok /\ r.val <= from THEN Err("in the past") ELSE r

CalculateNextRun(scheduleType, scheduleValue, timezone, from) ==
    LET loc == LoadLocation(timezone)
        now == from
    IN CASE scheduleType = "once"     -> parseOnce(scheduleValue, loc)
         [] scheduleType = "daily"    -> parseDaily(scheduleValue, now, loc)
         [] scheduleType = "hourly"   -> parseHourly(scheduleValue, now, loc)
         [] scheduleType = "interval" -> parseInterval(scheduleValue, now)
         [] scheduleType = "cron"     -> parseCron(scheduleValue, now, loc)
         [] OTHER                     -> Err("unknown schedule type")

\* The schedule kinds the switch of ParseSchedule accepts: the name of the
\* kind written by the characters t, "" when t is none of the five.
KindName(t) ==
    CASE t = <<"o", "n", "c", "e">> -> "once"
      [] t = <<"d", "a", "i", "l", "y">> -> "daily"
      [] t = <<"h", "o", "u", "r", "l", "y">> -> "hourly"
      [] t = <<"i", "n", "t", "e", "r", "v", "a", "l">> -> "interval"
      [] t = <<"c", "r", "o", "n">> -> "cron"
      [] OTHER -> ""

\* ParseSchedule cutting the text at every colon.
ParseScheduleSplitAll(schedule) ==
    LET parts == Split(schedule, ":") IN
    IF Len(parts) # 2 THEN Err("invalid schedule format")
    ELSE IF KindName(parts[1]) = "" THEN Err("unknown schedule type")
    ELSE Ok([scheduleType |-> KindName(parts[1]), scheduleValue |-> parts[2]])

ParseSchedule(schedule) ==
    LET parts == SplitN2(schedule, ":") IN
    IF Len(parts) # 2 THEN Err("invalid schedule format")
    ELSE IF KindName(parts[1]) = "" THEN Err("unknown schedule type")
    ELSE Ok([scheduleType |-> KindName(parts[1]), scheduleValue |-> parts[2]])

\* ------------------------------------------------------------------------
\* Bounds and inputs of the reminder model
\* ------------------------------------------------------------------------

\* The clock stops advancing at this instant (one hour after the epoch).
MaxTime == 3600

\* At most this many reminders are ever created.
MaxID == 2

\* At most this many calls of the reminder tool are made on main.
MaxOps == 3

\* The process is started at most this many times.
MaxBoots == 2

\* What the reminder tool hands to Create: one valid schedule per kind (the
\* epoch is 16:00 of 2024-03-08 in America/Los_Angeles), and two schedules
\* that the calculus rejects.  The recipient is the chat id the tool was
\* given: none, the operator's direct chat, a group chat, or the
\* conversation in which the prompt of a task without recipient runs.
CreateInputs ==
    { [stype |-> "once",
       svalue |-> <<"2","0","2","4","-","0","3","-","0","8","T","1","6",":","3","0">>,
       tz |-> "", recipient |-> <<>>],
      [stype |-> "daily", svalue |-> <<"1","7",":","0","0">>, tz |-> "",
       recipient |-> <<"d","m",":","o","p">>],
      [stype |-> "hourly", svalue |-> <<"3","0">>, tz |-> "UTC",
       recipient |-> <<"g","r","o","u","p",":","g">>],
      [stype |-> "interval", svalue |-> <<"3","0","m">>, tz |-> "",
       recipient |-> <<"d","m",":","o","p">>],
      [stype |-> "cron", svalue |-> <<"0"," ","1"," ","*"," ","*"," ","*">>,
       tz |-> "UTC", recipient |-> <<"s", "y", "s", "t", "e", "m", ":", "r", "e", "m", "i", "n", "d", "e", "r", "s">>],
      [stype |-> "daily", svalue |-> <<"2","5",":","0","0">>, tz |-> "", recipient |-> <<>>],
      [stype |-> "weekly", svalue |-> <<"1">>, tz |-> "", recipient |-> <<>>] }

\* Instants the clock may jump to besides the stored next-run times.
Instants == {1800}

\* Outcomes of the injected functions executeFunc and sendFunc.
Outcomes == {"ok", "err"}

\* ------------------------------------------------------------------------
\* State
\* ------------------------------------------------------------------------

VARIABLES
    now,       \* the wall clock (time.Now, CURRENT_TIMESTAMP)
    rows,      \* the reminders table: id -> Reminder
    nextID,    \* the AUTOINCREMENT sequence of the table
    frame,     \* per goroutine: the activation of executeReminder
    batch,     \* the poller's ListDue result for the current tick
    idx,       \* the poller's position in batch
    ran,       \* the executeReminder calls the current tick has completed
    lastErr,   \* the error returned by the last store or RunNow call of main
    ops        \* the number of reminder-tool calls made so far on main

VARIABLES
    hpc,       \* HandleMessage: where the handler is
    memory,    \* the persisted history of the conversation
    messages,  \* HandleMessage: the message list sent to the LLM
    resp,      \* HandleMessage: the LLM's last response
    tci,       \* HandleMessage: position in resp.ToolCalls
    round,     \* HandleMessage: the iteration counter
    hret,      \* HandleMessage: what it returned
    turn,      \* the number of HandleMessage calls made so far
    hdisp,     \* HandleMessage: what the last dispatch returned
    hcall      \* HandleMessage: the call's inputs and failed history operations

VARIABLES
    built,         \* NewManager: "none" before the call, then "ok" or "failed"
    pluginDir,     \* what os.ReadDir returned for the plugin directory
    plugins,       \* Manager.plugins: name -> Plugin
    internalTools, \* Manager.internalTools: name -> in-process tool
    toolCtx,       \* per context-aware tool: the chat id set by SetContext
    disp,          \* the activation of Execute / ExecuteWithContext
    proc,          \* the child process of the activation
    spawned,       \* the number of child processes started so far
    dres           \* the last dispatch: the call and what it returned

VARIABLES
    cpc,       \* where the reminder tool's add is: "input", "parsed", "done"
    cin,       \* its inputs: the schedule text, the timezone, time.Now()
    cparse,    \* what ParseSchedule returned
    cnext      \* what CalculateNextRun returned

VARIABLES
    boots,     \* the number of times the process has been started
    lost,      \* the occurrences delivered by a process that stopped before
               \* their MarkExecuted was persisted
    sched,     \* the daily-summary Scheduler: hour, lastSent, and the instants
               \* at which summaryFunc was called and at which a summary was sent
    ctxDone,   \* main has cancelled the shared context
    exited,    \* main has returned: the process is gone
    tpc,       \* where each Start is: "select", "check", "returned"
    operatorAddress,  \* main's operatorAddress
    lastMsg,   \* the last incoming message and what main did with it
    tchat,     \* the reminder Tool's chatID, as the two words of a string
    rpc,       \* per goroutine: where its dispatch of the reminder tool's add
               \* is, and the conversation of its orchestration run
    lastAdd    \* the last add: the conversation of its run, the recipient stored

storeVars == <<now, rows, nextID, frame, batch, idx, ran, lastErr, ops>>

handlerVars == <<hpc, memory, messages, resp, tci, round, hret, turn, hdisp, hcall>>

pluginVars == <<built, pluginDir, plugins, internalTools, toolCtx, disp, proc, spawned, dres>>

calcVars == <<cpc, cin, cparse, cnext>>

connVars == <<operatorAddress, lastMsg, tchat, rpc, lastAdd>>

botVars == <<boots, lost, sched, ctxDone, exited, tpc, connVars>>

vars == <<storeVars, handlerVars, pluginVars, calcVars, botVars>>

Goroutines == {"poller", "main"}

NullTime == [Valid |-> FALSE, Time |-> 0]

SomeTime(t) == [Valid |-> TRUE, Time |-> t]

NoReminder ==
    [ID |-> 0, Prompt |-> "", ScheduleType |-> "", ScheduleValue |-> <<>>,
     Timezone |-> "", Recipient |-> <<>>, Enabled |-> FALSE,
     LastRun |-> NullTime, NextRun |-> 0, CreatedAt |-> 0]

\* An activation of executeReminder that is not running.
IdleFrame ==
    [pc |-> "idle", r |-> NoReminder, conv |-> <<>>, execErr |-> FALSE, result |-> <<>>,
     sent |-> <<>>, sendErr |-> FALSE, markCalled |-> FALSE, markErr |-> FALSE,
     mr |-> NoReminder, mnow |-> 0]

\* ------------------------------------------------------------------------
\* Store (reminder/store.go)
\* ------------------------------------------------------------------------

\* A GetByID that finds only the rows ListDue would return.
GetByIDWhenDue(id) ==
    IF id \in DOMAIN rows /\ rows[id].Enabled /\ rows[id].NextRun <= now
    THEN rows[id] ELSE NoReminder

\* GetByID: the row, or NoReminder (ID 0) for sql.ErrNoRows.
GetByID(id) == IF id \in DOMAIN rows THEN rows[id] ELSE NoReminder

\* ListDue without the enabled = 1 condition.
IsDueIgnoringEnabled(r, t) == r.NextRun <= t

\* The WHERE clause of ListDue.
IsDue(r, t) == r.Enabled /\ r.NextRun <= t

\* ListDue without ORDER BY: the due rows in any order.
ListDueAnyOrder(t) ==
    LET due == {id \in DOMAIN rows : IsDue(rows[id], t)}
        n   == Cardinality(due)
        ord == {s \in [1..n -> due] : \A i, j \in 1..n : i # j => s[i] # s[j]}
    IN {[k \in 1..n |-> rows[s[k]]] : s \in ord}

\* ListDue: the due rows ORDER BY next_run ASC; rows with equal next_run
\* come in an order the query does not fix, so every such order is a result.
ListDue(t) ==
    LET due == {id \in DOMAIN rows : IsDue(rows[id], t)}
        n   == Cardinality(due)
        ord == {s \in [1..n -> due] :
                  /\ \A i, j \in 1..n : i # j => s[i] # s[j]
                  /\ \A i, j \in 1..n : i < j => rows[s[i]].NextRun <= rows[s[j]].NextRun}
    IN {[k \in 1..n |-> rows[s[k]]] : s \in ord}

\* The once UPDATE without enabled = 0.
MarkOnceLeaveEnabled(row, t) == [row EXCEPT !.LastRun = SomeTime(t)]

\* The row after the UPDATE of MarkExecuted for a once reminder.
MarkOnceRow(row, t) == [row EXCEPT !.LastRun = SomeTime(t), !.Enabled = FALSE]

\* The recurring UPDATE without next_run = ?.
MarkRecurringKeepNextRun(row, t, nextRun) == [row EXCEPT !.LastRun = SomeTime(t)]

\* The row after the UPDATE of MarkExecuted for a recurring reminder.
MarkRecurringRow(row, t, nextRun) ==
    [row EXCEPT !.LastRun = SomeTime(t), !.NextRun = nextRun]

\* An UPDATE ... WHERE id = ?: rewrites the row when it exists.
UpdateRow(id, row) ==
    IF id \in DOMAIN rows THEN [rows EXCEPT ![id] = row] ELSE rows

\* An INSERT OR REPLACE that is keyed by the first id instead of the
\* AUTOINCREMENT sequence.
InsertReplacingFirst(id, row) ==
    [i \in DOMAIN rows \cup {1} |-> IF i = 1 THEN [row EXCEPT !.ID = 1] ELSE rows[i]]

\* The INSERT of Create: the row stored under the id of the sequence.
Insert(id, row) ==
    [i \in DOMAIN rows \cup {id} |-> IF i = id THEN row ELSE rows[i]]

\* A DELETE whose WHERE clause matches every id up to the given one.
DeleteRowsUpTo(id) == [i \in {j \in DOMAIN rows : j > id} |-> rows[i]]

\* DELETE FROM reminders WHERE id = ?
DeleteRow(id) == [i \in DOMAIN rows \ {id} |-> rows[i]]

\* An UPDATE that forgets last_run when it clears the flag.
SetEnabledRowClearingLastRun(row, enabled) ==
    [row EXCEPT !.Enabled = enabled,
                !.LastRun = IF enabled THEN @ ELSE NullTime]

\* An UPDATE that recomputes next_run when it sets the flag.
SetEnabledRowRecomputing(row, enabled) ==
    LET c == CalculateNextRun(row.ScheduleType, row.ScheduleValue, row.Timezone, now)
    IN [row EXCEPT !.Enabled = enabled,
                   !.NextRun = IF enabled /\ c.ok THEN c.val ELSE @]

\* UPDATE reminders SET enabled = ? WHERE id = ?: the row after it.
SetEnabledRow(row, enabled) == [row EXCEPT !.Enabled = enabled]

\* Store.Create, called by the reminder tool on the main goroutine.
Create(stype, svalue, tz, recipient) ==
    /\ frame["main"].pc = "idle"
    /\ ops < MaxOps
    /\ ops' = ops + 1
    /\ nextID <= MaxID
    /\ LET timezone == IF tz = "" THEN DefaultTimezone ELSE tz
           nextRun  == CalculateNextRun(stype, svalue, timezone, now)
       IN IF ~nextRun.ok
          THEN /\ lastErr' = "calculate next run"
               /\ UNCHANGED <<rows, nextID>>
          ELSE /\ rows' = Insert(nextID,
                                  [ID |-> nextID, Prompt |-> "p",
                                   ScheduleType |-> stype, ScheduleValue |-> svalue,
                                   Timezone |-> timezone, Recipient |-> recipient,
                                   Enabled |-> TRUE, LastRun |-> NullTime,
                                   NextRun |-> nextRun.val, CreatedAt |-> now])
               /\ nextID' = nextID + 1
               /\ lastErr' = ""
    /\ UNCHANGED <<now, frame, batch, idx, ran, handlerVars, pluginVars, calcVars, botVars>>

\* Store.Delete
Delete(id) ==
    /\ frame["main"].pc = "idle"
    /\ ops < MaxOps
    /\ ops' = ops + 1
    /\ IF id \in DOMAIN rows
       THEN /\ rows' = DeleteRow(id)
            /\ lastErr' = ""
       ELSE /\ lastErr' = "not found"
            /\ UNCHANGED rows
    /\ UNCHANGED <<now, nextID, frame, batch, idx, ran, handlerVars, pluginVars, calcVars, botVars>>

\* Store.SetEnabled
SetEnabled(id, enabled) ==
    /\ frame["main"].pc = "idle"
    /\ ops < MaxOps
    /\ ops' = ops + 1
    /\ IF id \in DOMAIN rows
       THEN /\ rows' = UpdateRow(id, SetEnabledRow(GetByID(id), enabled))
            /\ lastErr' = ""
       ELSE /\ lastErr' = "not found"
            /\ UNCHANGED rows
    /\ UNCHANGED <<now, nextID, frame, batch, idx, ran, handlerVars, pluginVars, calcVars, botVars>>

\* ------------------------------------------------------------------------
\* Scheduler (reminder/scheduler.go)
\* ------------------------------------------------------------------------

\* Executor.Execute handing the recipient on as it is.
ExecuteChatIDRaw(recipient) == recipient

\* Executor.Execute: the chat id handed to ExecutePrompt.
ExecuteChatID(recipient) ==
    IF recipient = <<>> THEN <<"s", "y", "s", "t", "e", "m", ":", "r", "e", "m", "i", "n", "d", "e", "r", "s">> ELSE recipient

\* sendToOperator: a direct message to the operator's address.
sendToOperator == [api |-> "SendMessage", addr |-> <<"o", "p">>]

\* sendToRecipient: the Signal call that delivers to a recipient.
sendToRecipient(recipient) ==
    LET HasPrefix(str, prefix) ==
            Len(str) >= Len(prefix) /\ SubSeq(str, 1, Len(prefix)) = prefix
        TrimPrefix(str, prefix) == SubSeq(str, Len(prefix) + 1, Len(str))
        group == <<"g", "r", "o", "u", "p", ":">>
        dm    == <<"d", "m", ":">>
    IN IF recipient = <<>> THEN sendToOperator
       ELSE IF HasPrefix(recipient, group)
       THEN [api |-> "SendGroupMessage", addr |-> TrimPrefix(recipient, group)]
       ELSE IF HasPrefix(recipient, dm)
       THEN [api |-> "SendMessage", addr |-> TrimPrefix(recipient, dm)]
       ELSE sendToOperator

\* fmt.Sprintf("Reminder %d failed: %v", r.ID, err)
FailureReport(id, err) == <<"Reminder", id, "failed", err>>

\* The answer of the orchestration loop for a prompt.
Answer(r) == <<"answer", r.Prompt>>

\* executeReminder delivering the empty result of a failed execution.
ResultRaw(r, outcome) == IF outcome = "err" THEN <<>> ELSE Answer(r)

\* The value of result after line 65-69 of executeReminder.
ResultOf(r, outcome) ==
    IF outcome = "err" THEN FailureReport(r.ID, "llm chat") ELSE Answer(r)

\* Entry of executeReminder(r).
StartFrame(r) == [IdleFrame EXCEPT !.pc = "exec", !.r = r]

\* Whether executeReminder goes on to MarkExecuted after sendFunc returned.
MarksAfterSend(sendOutcome) == sendOutcome = "ok"

\* Whether the activation f of executeReminder met an error.
Failed(f) == f.execErr \/ f.sendErr \/ f.markErr

\* A range loop that is left when an element's execution met an error.
NextIndexStopOnError(i, f) == IF Failed(f) THEN i + MaxID + 1 ELSE i + 1

\* Where the range loop of checkDueReminders goes after executeReminder
\* returned for batch[i]: to the next element, whatever the activation f did.
NextIndex(i, f) == i + 1

\* A tick that does not wait for the batch of the tick before it.
PollerTickOverlapping ==
    /\ frame["poller"].pc \in {"idle", "loop"}
    /\ \E b \in ListDue(now) :
         /\ batch' = b
         /\ idx' = 1
    /\ ran' = <<>>
    /\ frame' = [frame EXCEPT !["poller"].pc = "loop"]
    /\ UNCHANGED <<now, rows, nextID, lastErr, ops, handlerVars, pluginVars, calcVars, botVars>>

\* checkDueReminders, line 49: the poller's tick takes the ListDue snapshot.
PollerTick ==
    /\ frame["poller"].pc = "idle"
    /\ \E b \in ListDue(now) :
         /\ batch' = b
         /\ idx' = 1
    /\ ran' = <<>>
    /\ frame' = [frame EXCEPT !["poller"].pc = "loop"]
    /\ UNCHANGED <<now, rows, nextID, lastErr, ops, handlerVars, pluginVars, calcVars, botVars>>

\* checkDueReminders, line 55-57: the range loop calls executeReminder for
\* the next element, or the tick ends.
PollerLoop ==
    /\ frame["poller"].pc = "loop"
    /\ IF idx <= Len(batch)
       THEN /\ frame' = [frame EXCEPT !["poller"] = StartFrame(batch[idx])]
            /\ UNCHANGED <<batch, idx, ran>>
       ELSE /\ frame' = [frame EXCEPT !["poller"] = IdleFrame]
            /\ batch' = <<>>
            /\ idx' = 0
            /\ ran' = <<>>
    /\ UNCHANGED <<now, rows, nextID, lastErr, ops, handlerVars, pluginVars, calcVars, botVars>>

\* executeReminder returned to checkDueReminders.
PollerReturn ==
    /\ frame["poller"].pc = "ret"
    /\ idx' = NextIndex(idx, frame["poller"])
    /\ ran' = Append(ran, [id |-> frame["poller"].r.ID, failed |-> Failed(frame["poller"])])
    /\ frame' = [frame EXCEPT !["poller"] = [IdleFrame EXCEPT !.pc = "loop"]]
    /\ UNCHANGED <<now, rows, nextID, batch, lastErr, ops, handlerVars, pluginVars, calcVars, botVars>>

\* RunNow(id), line 87-96, called by the reminder tool on the main goroutine.
RunNow(id) ==
    /\ frame["main"].pc = "idle"
    /\ ops < MaxOps
    /\ ops' = ops + 1
    /\ LET r == GetByID(id) IN
       IF r.ID = 0
       THEN /\ lastErr' = "not found"
            /\ UNCHANGED frame
       ELSE /\ frame' = [frame EXCEPT !["main"] = StartFrame(r)]
            /\ lastErr' = ""
    /\ UNCHANGED <<now, rows, nextID, batch, idx, ran, handlerVars, pluginVars, calcVars, botVars>>

\* executeReminder returned to RunNow, which returns nil.
RunNowReturn ==
    /\ frame["main"].pc = "ret"
    /\ frame' = [frame EXCEPT !["main"] = IdleFrame]
    /\ UNCHANGED <<now, rows, nextID, batch, idx, ran, lastErr, ops, handlerVars, pluginVars, calcVars, botVars>>

\* executeReminder, line 65-71: run the prompt; an error becomes the report.
Execute(g, outcome) ==
    /\ frame[g].pc = "exec"
    /\ frame' = [frame EXCEPT ![g].pc = "send",
                              ![g].conv = ExecuteChatID(frame[g].r.Recipient),
                              ![g].execErr = (outcome = "err"),
                              ![g].result = ResultOf(frame[g].r, outcome)]
    /\ UNCHANGED <<now, rows, nextID, batch, idx, ran, lastErr, ops, handlerVars, pluginVars, calcVars, botVars>>

\* executeReminder, line 73-76: deliver the message; return on failure.
Send(g, outcome) ==
    /\ frame[g].pc = "send"
    /\ frame' = [frame EXCEPT
                   ![g].sent = Append(frame[g].sent,
                                      [to |-> frame[g].r.Recipient,
                                       via |-> sendToRecipient(frame[g].r.Recipient),
                                       message |-> frame[g].result]),
                   ![g].sendErr = (outcome = "err"),
                   ![g].pc = IF MarksAfterSend(outcome) THEN "mark" ELSE "ret"]
    /\ UNCHANGED <<now, rows, nextID, batch, idx, ran, lastErr, ops, handlerVars, pluginVars, calcVars, botVars>>

\* MarkExecuted, line 214-222: read the row and take the current time.
MarkRead(g) ==
    /\ frame[g].pc = "mark"
    /\ LET r == GetByID(frame[g].r.ID) IN
       IF r.ID = 0
       THEN frame' = [frame EXCEPT ![g].pc = "ret", ![g].markCalled = TRUE,
                                   ![g].markErr = TRUE]
       ELSE frame' = [frame EXCEPT ![g].pc = "update", ![g].markCalled = TRUE,
                                   ![g].mr = r, ![g].mnow = now]
    /\ UNCHANGED <<now, rows, nextID, batch, idx, ran, lastErr, ops, handlerVars, pluginVars, calcVars, botVars>>

\* MarkExecuted, line 224-241: the UPDATE, from the row read before.
MarkUpdate(g) ==
    /\ frame[g].pc = "update"
    /\ LET r == frame[g].mr
           t == frame[g].mnow
       IN IF r.ScheduleType = "once"
          THEN /\ rows' = UpdateRow(r.ID, MarkOnceRow(GetByID(r.ID), t))
               /\ frame' = [frame EXCEPT ![g].pc = "ret"]
          ELSE LET nextRun == CalculateNextRun(r.ScheduleType, r.ScheduleValue,
                                               r.Timezone, t)
               IN IF ~nextRun.ok
                  THEN /\ frame' = [frame EXCEPT ![g].pc = "ret", ![g].markErr = TRUE]
                       /\ UNCHANGED rows
                  ELSE /\ rows' = UpdateRow(r.ID,
                                     MarkRecurringRow(GetByID(r.ID), t, nextRun.val))
                       /\ frame' = [frame EXCEPT ![g].pc = "ret"]
    /\ UNCHANGED <<now, nextID, batch, idx, ran, lastErr, ops, handlerVars, pluginVars, calcVars, botVars>>

\* A stop that writes the occurrence in flight off as executed.
CrashMarkingInFlight ==
    /\ boots < MaxBoots
    /\ boots' = boots + 1
    /\ lost' = lost
    /\ rows' = [id \in DOMAIN rows |->
                  IF \E g \in Goroutines :
                        frame[g].pc \in {"mark", "update"} /\ frame[g].r.ID = id
                  THEN [rows[id] EXCEPT !.Enabled = FALSE]
                  ELSE rows[id]]
    /\ frame' = [g \in Goroutines |-> IdleFrame]
    /\ batch' = <<>>
    /\ idx' = 0
    /\ ran' = <<>>
    /\ lastErr' = ""
    /\ UNCHANGED <<now, nextID, ops, handlerVars, pluginVars, calcVars>>
    /\ UNCHANGED <<sched, ctxDone, exited, tpc, connVars>>

\* The process stops (a crash, or main returning) and is started again:
\* the table is what was persisted, the goroutines start from the top, and
\* every activation of executeReminder is gone.
Crash ==
    /\ boots < MaxBoots
    /\ boots' = boots + 1
    /\ lost' = lost \cup
                 { [id |-> frame[g].r.ID, nextRun |-> frame[g].r.NextRun] :
                     g \in {h \in Goroutines : frame[h].pc \in {"mark", "update"}} }
    /\ frame' = [g \in Goroutines |-> IdleFrame]
    /\ batch' = <<>>
    /\ idx' = 0
    /\ ran' = <<>>
    /\ lastErr' = ""
    /\ UNCHANGED <<now, rows, nextID, ops, handlerVars, pluginVars, calcVars>>
    /\ UNCHANGED <<sched, ctxDone, exited, tpc, connVars>>

\* Time passes.
Advance ==
    /\ \E t \in Instants \cup {rows[id].NextRun : id \in DOMAIN rows} :
         /\ t > now
         /\ t <= MaxTime
         /\ now' = t
    /\ UNCHANGED <<rows, nextID, frame, batch, idx, ran, lastErr, ops, handlerVars, pluginVars, calcVars, botVars>>

\* ------------------------------------------------------------------------
\* Tool registry and dispatcher (plugins/plugins.go)
\* ------------------------------------------------------------------------

\* At most this many external processes are started.
MaxSpawns == 2

\* loadPlugin, line 118-120: the timeout of a definition without one.
DefaultTimeout == 30

\* strconv-style decimal text of a natural number (the %d of fmt).
RECURSIVE Itoa(_)
Itoa(n) ==
    IF n < 10 THEN <<DigitChar(n)>> ELSE Itoa(n \div 10) \o <<DigitChar(n % 10)>>

\* Line 161 and 198.
UnknownPluginError(name) == <<"unknown plugin: ", name>>

\* Line 178 and 215.
TimeoutError(timeout) == <<"plugin timeout after ">> \o Itoa(timeout) \o <<"s">>

\* Line 185 and 222.
PluginError(errMsg) == <<"plugin error: ">> \o errMsg

\* A dispatch that returned (result, nil).
Result(text) == [failed |-> FALSE, result |-> text, err |-> <<>>]

\* A dispatch that returned ("", err).
Failure(err) == [failed |-> TRUE, result |-> <<>>, err |-> err]

\* m[k] = v, as a Go map assignment.
Put(m, k, v) == [x \in DOMAIN m \cup {k} |-> IF x = k THEN v ELSE m[x]]

\* The value of a key of a JSON object, or the zero value of the field.
Field(obj, key, zero) == IF key \in DOMAIN obj THEN obj[key] ELSE zero

\* json.Unmarshal into PluginDefinition, line 16-22 and 113-116: an absent
\* key leaves the zero value of its field.
Unmarshal(data) ==
    IF data.kind # "json" THEN Err("parse definition")
    ELSE Ok([Name    |-> Field(data.obj, "name", ""),
             Timeout |-> Field(data.obj, "timeout", 0),
             Enabled |-> Field(data.obj, "enabled", FALSE)])

\* Line 135.
Candidates == <<"run", "run.sh", "run.py", "run.rb", "main">>

\* findExecutable: the first candidate that exists with an execute bit.
findExecutable(files) ==
    LET hits == {i \in 1..Len(Candidates) :
                   \E f \in files : f.name = Candidates[i] /\ f.exec}
    IN IF hits = {} THEN ""
       ELSE Candidates[CHOOSE i \in hits : \A j \in hits : i <= j]

\* loadPlugin: the Plugin of a subdirectory, or the reason it is skipped.
loadPlugin(entry) ==
    IF entry.def.kind = "missing" THEN Err("read definition")
    ELSE LET def == Unmarshal(entry.def) IN
         IF ~def.ok THEN def
         ELSE LET exe == findExecutable(entry.files) IN
              IF exe = "" THEN Err("no executable found")
              ELSE Ok([Definition |->
                          [def.val EXCEPT !.Timeout =
                               IF def.val.Timeout = 0 THEN DefaultTimeout
                               ELSE def.val.Timeout],
                       Executable |-> exe,
                       Dir |-> entry.name])

\* loadPlugins, line 81-101: the map after the entries from position i on.
RECURSIVE loadEntries(_, _, _)
loadEntries(entries, i, acc) ==
    IF i > Len(entries) THEN acc
    ELSE LET entry  == entries[i]
             plugin == loadPlugin(entry)
         IN IF ~entry.isDir \/ ~plugin.ok \/ ~plugin.val.Definition.Enabled
            THEN loadEntries(entries, i + 1, acc)
            ELSE loadEntries(entries, i + 1,
                             Put(acc, plugin.val.Definition.Name, plugin.val))

\* loadPlugins: a missing directory loads nothing.
loadPlugins(listing) ==
    IF listing.kind = "ok" THEN loadEntries(listing.entries, 1, <<>>) ELSE <<>>

File(name, exec) == [name |-> name, exec |-> exec]

\* The content of a definition.json that is a JSON object.
Json(obj) == [kind |-> "json", obj |-> obj]

DirEntry(name, isDir, def, files) ==
    [name |-> name, isDir |-> isDir, def |-> def, files |-> files]

\* The results of os.ReadDir for the plugin directories tried (entries in
\* file-name order): a missing directory, an unreadable one, one whose
\* entries are all skipped, one with a plugin that omits enabled, and one
\* with a plugin named like the in-process reminder tool.
Listings ==
    LET
        EWeather ==
            DirEntry("weather", TRUE, Json([name |-> "weather", enabled |-> TRUE]),
                     {File("run", TRUE)})
        ENotes ==
            DirEntry("notes", TRUE, Json([name |-> "notes", timeout |-> 2]),
                     {File("run", FALSE), File("run.sh", TRUE)})
        EOff ==
            DirEntry("off", TRUE, Json([name |-> "off", enabled |-> FALSE]),
                     {File("run", TRUE)})
        EShadow ==
            DirEntry("rem", TRUE,
                     Json([name |-> "reminder", timeout |-> 2, enabled |-> TRUE]),
                     {File("main", TRUE)})
        ENoExec ==
            DirEntry("draft", TRUE, Json([name |-> "draft", enabled |-> TRUE]),
                     {File("run", FALSE), File("notes.txt", TRUE)})
        EMalformed == DirEntry("bad", TRUE, [kind |-> "malformed"], {File("run", TRUE)})
        ENoDef == DirEntry("empty", TRUE, [kind |-> "missing"], {File("run", TRUE)})
        EFile == DirEntry("README", FALSE, [kind |-> "missing"], {})
    IN { [kind |-> "notexist", entries |-> <<>>],
         [kind |-> "error", entries |-> <<>>],
         [kind |-> "ok", entries |-> <<EFile, EMalformed, ENoExec, ENoDef, EOff>>],
         [kind |-> "ok", entries |-> <<ENotes, EWeather>>],
         [kind |-> "ok", entries |-> <<EShadow, EWeather>>] }

\* The tools RegisterTool is called with: the reminder tool implements
\* ContextAwareTool, the other one only InternalTool.
InternalTools ==
    { [name |-> "reminder", aware |-> TRUE], [name |-> "weather", aware |-> FALSE] }

\* What the Execute method of an in-process tool may return.
ToolOutcomes == {Result(<<"result">>), Failure(<<"id is required">>)}

\* How a child process may behave: seconds until it exits by itself, its
\* exit code, what it has written to stdout and stderr by then, and what it
\* has written to stdout when it is killed earlier.
Behaviours ==
    { [runs |-> 1, code |-> 0, out |-> <<"sunny">>, errOut |-> <<>>, partial |-> <<>>],
      [runs |-> 1, code |-> 1, out |-> <<"half">>, errOut |-> <<"boom">>, partial |-> <<>>],
      [runs |-> 1, code |-> 2, out |-> <<>>, errOut |-> <<>>, partial |-> <<>>],
      [runs |-> 2, code |-> 0, out |-> <<"late">>, errOut |-> <<>>, partial |-> <<"la">>],
      [runs |-> 99, code |-> 0, out |-> <<"never">>, errOut |-> <<>>, partial |-> <<"part">>] }

NoProc ==
    [state |-> "none", killed |-> FALSE, exitAt |-> 0, code |-> 0, out |-> <<>>,
     errOut |-> <<>>, partial |-> <<>>]

IdleDispatch ==
    [pc |-> "idle", api |-> "", name |-> "", args |-> "", chatID |-> "",
     timeout |-> 0, deadline |-> 0, runErr |-> <<>>, stdout |-> <<>>,
     stderr |-> <<>>]

NoResult ==
    [api |-> "", name |-> "", args |-> "", chatID |-> "", via |-> "",
     ret |-> Result(<<>>)]

\* What a finished dispatch leaves in dres.
Returned(api, name, args, chatID, via, ret) ==
    [api |-> api, name |-> name, args |-> args, chatID |-> chatID, via |-> via,
     ret |-> ret]

\* A lookup that prefers the external plugin of a name.
ResolveExternalFirst(name) ==
    IF name \in DOMAIN plugins THEN "external"
    ELSE IF name \in DOMAIN internalTools THEN "internal"
    ELSE "unknown"

\* Line 152-162 and 192-199: the in-process tools are looked up first.
Resolve(name) ==
    IF name \in DOMAIN internalTools THEN "internal"
    ELSE IF name \in DOMAIN plugins THEN "external"
    ELSE "unknown"

\* An unknown name answered with an empty result and no error.
DispatchUnknownAsEmpty(name) == Result(<<>>)

\* Line 160-162 and 197-199.
DispatchUnknown(name) == Failure(UnknownPluginError(name))

\* The decision after cmd.Run that returns stdout whatever the exit status.
AfterRunIgnoringExitStatus(expired, runErr, stdout, stderr, timeout) ==
    IF expired THEN Failure(TimeoutError(timeout)) ELSE Result(stdout)

\* The decision after cmd.Run with the run error looked at first.
AfterRunErrorFirst(expired, runErr, stdout, stderr, timeout) ==
    IF runErr # <<>>
    THEN Failure(PluginError(IF stderr = <<>> THEN runErr ELSE stderr))
    ELSE IF expired THEN Failure(TimeoutError(timeout))
    ELSE Result(stdout)

\* Line 177-188 and 214-225: what dispatch returns after cmd.Run, given
\* whether ctx.Err() is DeadlineExceeded when it is read.
AfterRun(expired, runErr, stdout, stderr, timeout) ==
    IF expired THEN Failure(TimeoutError(timeout))
    ELSE IF runErr # <<>>
    THEN Failure(PluginError(IF stderr = <<>> THEN runErr ELSE stderr))
    ELSE Result(stdout)

\* (*exec.ExitError).Error() of a finished child.
RunError(p) ==
    IF p.killed THEN <<"signal: killed">>
    ELSE IF p.code # 0 THEN <<"exit status ">> \o Itoa(p.code)
    ELSE <<>>

\* NewManager, line 46-58: loads the directory; a ReadDir error other than
\* not-exist fails the construction.
NewManager(listing) ==
    /\ built = "none"
    /\ pluginDir' = listing
    /\ IF listing.kind = "error"
       THEN /\ built' = "failed"
            /\ UNCHANGED plugins
       ELSE /\ built' = "ok"
            /\ plugins' = loadPlugins(listing)
    /\ UNCHANGED <<internalTools, toolCtx, disp, proc, spawned, dres,
                   storeVars, handlerVars, calcVars, botVars>>

\* RegisterTool, line 60-65.
RegisterTool(name, aware) ==
    /\ built = "ok"
    /\ disp.pc = "idle"
    /\ internalTools' = Put(internalTools, name, [aware |-> aware])
    /\ UNCHANGED <<built, pluginDir, plugins, toolCtx, disp, proc, spawned, dres,
                   storeVars, handlerVars, calcVars, botVars>>

\* Execute and ExecuteWithContext up to cmd.Run: an in-process tool is
\* invoked (after SetContext, for ExecuteWithContext on a context-aware
\* tool), an unknown name fails, an external plugin is started.
Dispatch(api, name, args, chatID) ==
    /\ built = "ok"
    /\ disp.pc = "idle"
    /\ CASE Resolve(name) = "internal" ->
              /\ \E o \in ToolOutcomes :
                   dres' = Returned(api, name, args, chatID, "internal", o)
              /\ toolCtx' = IF api = "ExecuteWithContext" /\ internalTools[name].aware
                            THEN Put(toolCtx, name, chatID)
                            ELSE toolCtx
              /\ UNCHANGED <<disp, proc, spawned>>
         [] Resolve(name) = "unknown" ->
              /\ dres' = Returned(api, name, args, chatID, "unknown",
                                  DispatchUnknown(name))
              /\ UNCHANGED <<toolCtx, disp, proc, spawned>>
         [] OTHER ->
              /\ spawned < MaxSpawns
              /\ \E b \in Behaviours :
                   proc' = [state |-> "running", killed |-> FALSE,
                            exitAt |-> now + b.runs,
                            code |-> b.code, out |-> b.out, errOut |-> b.errOut,
                            partial |-> b.partial]
              /\ disp' = [IdleDispatch EXCEPT
                            !.pc = "run", !.api = api, !.name = name,
                            !.args = args, !.chatID = chatID,
                            !.timeout = plugins[name].Definition.Timeout,
                            !.deadline = now + plugins[name].Definition.Timeout]
              /\ spawned' = spawned + 1
              /\ dres' = NoResult
              /\ UNCHANGED toolCtx
    /\ UNCHANGED <<built, pluginDir, plugins, internalTools, storeVars, handlerVars, calcVars, botVars>>

\* The child exits by itself.
ProcExit ==
    /\ proc.state = "running"
    /\ now = proc.exitAt
    /\ proc' = [proc EXCEPT !.state = "exited"]
    /\ UNCHANGED <<built, pluginDir, plugins, internalTools, toolCtx, disp, spawned, dres,
                   storeVars, handlerVars, calcVars, botVars>>

\* exec.CommandContext: the deadline passes and the child is killed; what
\* it wrote so far stays in the buffers.
ProcKill ==
    /\ proc.state = "running"
    /\ now >= disp.deadline
    /\ proc' = [proc EXCEPT !.state = "exited", !.killed = TRUE,
                            !.out = proc.partial, !.errOut = <<>>]
    /\ UNCHANGED <<built, pluginDir, plugins, internalTools, toolCtx, disp, spawned, dres,
                   storeVars, handlerVars, calcVars, botVars>>

\* cmd.Run returns, line 176 and 213: the child has been waited for.
RunReturns ==
    /\ disp.pc = "run"
    /\ proc.state = "exited"
    /\ disp' = [disp EXCEPT !.pc = "check", !.runErr = RunError(proc),
                            !.stdout = proc.out, !.stderr = proc.errOut]
    /\ proc' = [proc EXCEPT !.state = "reaped"]
    /\ UNCHANGED <<built, pluginDir, plugins, internalTools, toolCtx, spawned, dres,
                   storeVars, handlerVars, calcVars, botVars>>

\* Line 177-188 and 214-225: ctx.Err() is read and the dispatch returns.
DispatchReturn ==
    /\ disp.pc = "check"
    /\ dres' = Returned(disp.api, disp.name, disp.args, disp.chatID, "external",
                        AfterRun(now >= disp.deadline, disp.runErr, disp.stdout,
                                 disp.stderr, disp.timeout))
    /\ disp' = IdleDispatch
    /\ UNCHANGED <<built, pluginDir, plugins, internalTools, toolCtx, proc, spawned,
                   storeVars, handlerVars, calcVars, botVars>>

\* Time passes during a dispatch, up to the next exit or deadline.
PluginAdvance ==
    /\ disp.pc \in {"run", "check"}
    /\ \E t \in {proc.exitAt, disp.deadline} :
         /\ t > now
         /\ t <= MaxTime
         /\ proc.state = "running" => (t <= proc.exitAt /\ t <= disp.deadline)
         /\ now' = t
    /\ UNCHANGED <<rows, nextID, frame, batch, idx, ran, lastErr, ops,
                   handlerVars, pluginVars, calcVars, botVars>>

\* GetTools, line 228-247: the names of the descriptors returned, the
\* in-process tools first; Go iterates each map in an unspecified order.
Orders(names) ==
    {s \in [1..Cardinality(names) -> names] :
        \A i, j \in 1..Cardinality(names) : i # j => s[i] # s[j]}

GetTools ==
    {a \o b : a \in Orders(DOMAIN internalTools),
              b \in {[i \in DOMAIN o |-> plugins[o[i]].Definition.Name] :
                       o \in Orders(DOMAIN plugins)}}

\* HasPlugin, line 249-255.
HasPlugin(name) == name \in DOMAIN internalTools \/ name \in DOMAIN plugins

\* PluginCount, line 257-259.
PluginCount == Cardinality(DOMAIN plugins) + Cardinality(DOMAIN internalTools)

\* ------------------------------------------------------------------------
\* Orchestration loop (bot/handler.go)
\* ------------------------------------------------------------------------

\* At most this many HandleMessage calls are made.
MaxTurns == 2

\* The LLM is asked at most this many times within one HandleMessage.
MaxRounds == 3

\* The LLM requests at most this many tool calls in one response.
MaxCalls == 2

\* The history store keeps at most this many messages of a conversation.
MaxMessages == 2

Msg(role, content) ==
    [Role |-> role, Content |-> content, ToolCalls |-> <<>>, ToolCallID |-> ""]

\* The text of the n-th user message.
UserText(n) == <<"u", DigitChar(n)>>

\* The system prompt followed by the current time, line 46.
DynamicPrompt == <<"prompt", "\n\nCurrent time: ", "now">>

\* Outcomes of memory.AddMessage: success, a failed INSERT, or a failed
\* pruneOldMessages after a successful INSERT.
AddOutcomes == {"ok", "err", "pruneErr"}

\* pruneOldMessages: keep the newest maxMessages messages.
pruneOldMessages(mem) ==
    IF Len(mem) > MaxMessages
    THEN SubSeq(mem, Len(mem) - MaxMessages + 1, Len(mem))
    ELSE mem

\* memory.AddMessage: the table after the call.
AddMessage(mem, role, content, outcome) ==
    CASE outcome = "ok"       -> pruneOldMessages(Append(mem, Msg(role, content)))
      [] outcome = "pruneErr" -> Append(mem, Msg(role, content))
      [] OTHER                -> mem

\* memory.GetHistory: ORDER BY timestamp ASC LIMIT maxMessages, nil on error.
GetHistory(mem, outcome) ==
    IF outcome = "ok"
    THEN SubSeq(mem, 1, IF Len(mem) < MaxMessages THEN Len(mem) ELSE MaxMessages)
    ELSE <<>>

\* The tool calls an LLM response may carry.
Calls ==
    { [ID |-> "c1", Name |-> "reminder", Arguments |-> "{}"],
      [ID |-> "c2", Name |-> "nope", Arguments |-> "{}"],
      [ID |-> "c3", Name |-> "weather", Arguments |-> "{}"] }

NoResponse == [Content |-> <<>>, ToolCalls |-> <<>>]

\* The responses llm.Chat may return without error.
Responses ==
    {[Content |-> <<"a">>, ToolCalls |-> <<>>]}
        \cup {[Content |-> <<>>, ToolCalls |-> cs] : cs \in UNION {[1..n -> Calls] : n \in 1..MaxCalls}}

NoDispatch == Result(<<>>)

\* What plugins.ExecuteWithContext may return to the handler for a call:
\* the in-process tool answers or fails, an unregistered name is unknown,
\* an external plugin times out or exits non-zero.
DispatchResults(tc) ==
    CASE tc.Name = "reminder" ->
           {Result(<<"result">>), Failure(<<"id is required">>)}
      [] tc.Name = "weather" ->
           {Failure(TimeoutError(30)), Failure(PluginError(<<"boom">>))}
      [] OTHER -> {Failure(UnknownPluginError(tc.Name))}

\* The assistant entry of line 80-83.
AssistantCalls(r) ==
    [Role |-> "assistant", Content |-> <<>>, ToolCalls |-> r.ToolCalls, ToolCallID |-> ""]

\* A tool entry that does not carry the call's identifier.
ToolMessageWithoutID(tc, result) ==
    [Role |-> "tool", Content |-> result, ToolCalls |-> <<>>, ToolCallID |-> ""]

\* The tool entry of line 89-93.
ToolMessage(tc, result) ==
    [Role |-> "tool", Content |-> result, ToolCalls |-> <<>>, ToolCallID |-> tc.ID]

\* executeToolWithContext that drops the error of a failed dispatch.
ToolResultDroppingError(tc, d) == d.result

\* executeToolWithContext, line 116-125: the result, or the error as text.
ToolResult(tc, d) ==
    IF d.failed THEN <<"Error: ">> \o d.err ELSE d.result

\* A loop that also treats a response with a single tool call as final.
IsFinalOrSingleCall(r) == Len(r.ToolCalls) <= 1

\* Line 68: the response carries no tool calls.
IsFinal(r) == Len(r.ToolCalls) = 0

\* A final return that reports the failure to persist the answer.
FinalReturnFailingOnPersist(r, outcome) ==
    IF outcome = "ok"
    THEN [done |-> TRUE, err |-> FALSE, text |-> r.Content, errText |-> <<>>]
    ELSE [done |-> TRUE, err |-> TRUE, text |-> <<>>,
          errText |-> <<"save message: ", "disk full">>]

\* Line 71-75: what HandleMessage returns after trying to persist the answer.
FinalReturn(r, outcome) ==
    [done |-> TRUE, err |-> FALSE, text |-> r.Content, errText |-> <<>>]

\* A failed llm.Chat whose error is lost on the way out (a nil error).
ChatErrorNil == <<>>

\* Line 65: the wrapped error of a failed llm.Chat.
ChatError == <<"llm chat: ", "status 500">>

NoReturn == [done |-> FALSE, err |-> FALSE, text |-> <<>>, errText |-> <<>>]

\* The record of a HandleMessage call: the user text, the stored history
\* when the call began, and which history operations failed.
NoCall ==
    [user |-> <<>>, prior |-> <<>>, addErr |-> FALSE, histErr |-> FALSE,
     finalErr |-> FALSE]

\* HandleMessage, line 36-38: persist the user message, best effort.
HandleStart(outcome) ==
    /\ hpc = "idle"
    /\ turn < MaxTurns
    /\ turn' = turn + 1
    /\ memory' = AddMessage(memory, "user", UserText(turn + 1), outcome)
    /\ hcall' = [NoCall EXCEPT !.user = UserText(turn + 1),
                               !.prior = GetHistory(memory, "ok"),
                               !.addErr = (outcome # "ok")]
    /\ hpc' = "history"
    /\ messages' = <<>>
    /\ resp' = NoResponse
    /\ hdisp' = NoDispatch
    /\ tci' = 0
    /\ round' = 0
    /\ hret' = NoReturn
    /\ UNCHANGED <<storeVars, pluginVars, calcVars, botVars>>

\* HandleMessage, line 40-51: read the history and build the message list.
HandleHistory(outcome) ==
    /\ hpc = "history"
    /\ messages' = <<Msg("system", DynamicPrompt)>> \o GetHistory(memory, outcome)
    /\ hcall' = [hcall EXCEPT !.histErr = (outcome # "ok")]
    /\ hpc' = "chat"
    /\ UNCHANGED <<memory, resp, hdisp, tci, round, hret, turn, storeVars, pluginVars, calcVars, botVars>>

\* HandleMessage, line 60-66: the LLM call fails and the error is returned.
ChatFails ==
    /\ hpc = "chat"
    /\ round < MaxRounds
    /\ round' = round + 1
    /\ hret' = [done |-> TRUE, err |-> TRUE, text |-> <<>>, errText |-> ChatError]
    /\ hpc' = "idle"
    /\ UNCHANGED <<memory, messages, resp, hdisp, tci, turn, hcall, storeVars, pluginVars, calcVars, botVars>>

\* HandleMessage, line 60-83: the LLM answers; a response with tool calls
\* appends the assistant entry and enters the loop over the calls.
Chat(r) ==
    /\ hpc = "chat"
    /\ round < MaxRounds
    /\ round' = round + 1
    /\ resp' = r
    /\ IF IsFinal(r)
       THEN /\ hpc' = "final"
            /\ UNCHANGED <<messages, tci>>
       ELSE /\ messages' = Append(messages, AssistantCalls(r))
            /\ tci' = 1
            /\ hpc' = "tools"
    /\ UNCHANGED <<memory, hdisp, hret, turn, hcall, storeVars, pluginVars, calcVars, botVars>>

\* HandleMessage, line 71-75: persist the answer, best effort, and return it.
HandleFinal(outcome) ==
    /\ hpc = "final"
    /\ memory' = AddMessage(memory, "assistant", resp.Content, outcome)
    /\ hcall' = [hcall EXCEPT !.finalErr = (outcome # "ok")]
    /\ hret' = FinalReturn(resp, outcome)
    /\ hpc' = "idle"
    /\ UNCHANGED <<messages, resp, hdisp, tci, round, turn, storeVars, pluginVars, calcVars, botVars>>

\* HandleMessage, line 85-94: dispatch the next call and append its entry.
HandleTool(d) ==
    /\ hpc = "tools"
    /\ tci <= Len(resp.ToolCalls)
    /\ d \in DispatchResults(resp.ToolCalls[tci])
    /\ hdisp' = d
    /\ LET tc == resp.ToolCalls[tci] IN
       messages' = Append(messages, ToolMessage(tc, ToolResult(tc, d)))
    /\ tci' = tci + 1
    /\ hpc' = IF tci + 1 > Len(resp.ToolCalls) THEN "chat" ELSE "tools"
    /\ UNCHANGED <<memory, resp, round, hret, turn, hcall, storeVars, pluginVars, calcVars, botVars>>

\* ------------------------------------------------------------------------
\* The reminder tool's add: ParseSchedule, then CalculateNextRun
\* (reminder/tool.go add, reminder/store.go)
\* ------------------------------------------------------------------------

\* The schedule texts handed to the tool: for every kind values the
\* calculus accepts and values it rejects, and texts ParseSchedule rejects.
CalcTexts ==
    {
      <<"d", "a", "i", "l", "y", ":", "0", "9", ":", "0", "0">>,
      <<"d", "a", "i", "l", "y", ":", "0", "0", ":", "0", "0">>,
      <<"d", "a", "i", "l", "y", ":", "2", "3", ":", "5", "9">>,
      <<"d", "a", "i", "l", "y", ":", "0", "2", ":", "3", "0">>,
      <<"d", "a", "i", "l", "y", ":", "1", "6", ":", "0", "0">>,
      <<"d", "a", "i", "l", "y", ":", "9", ":", "5">>,
      <<"d", "a", "i", "l", "y", ":", "2", "4", ":", "0", "0">>,
      <<"d", "a", "i", "l", "y", ":", "0", "9", ":", "6", "0">>,
      <<"d", "a", "i", "l", "y", ":", "9">>,
      <<"d", "a", "i", "l", "y", ":", "0", "9", ":", "0", "0", ":", "0", "0">>,
      <<"h", "o", "u", "r", "l", "y", ":", "3", "0">>,
      <<"h", "o", "u", "r", "l", "y", ":", "0">>,
      <<"h", "o", "u", "r", "l", "y", ":", "5", "9">>,
      <<"h", "o", "u", "r", "l", "y", ":", "6", "0">>,
      <<"h", "o", "u", "r", "l", "y", ":", "-", "1">>,
      <<"h", "o", "u", "r", "l", "y", ":", "x", "5">>,
      <<"i", "n", "t", "e", "r", "v", "a", "l", ":", "3", "0", "m">>,
      <<"i", "n", "t", "e", "r", "v", "a", "l", ":", "1", "h", "3", "0", "m">>,
      <<"i", "n", "t", "e", "r", "v", "a", "l", ":", "9", "0", "s">>,
      <<"i", "n", "t", "e", "r", "v", "a", "l", ":", "0">>,
      <<"i", "n", "t", "e", "r", "v", "a", "l", ":", "0", "s">>,
      <<"i", "n", "t", "e", "r", "v", "a", "l", ":", "-", "5", "m">>,
      <<"i", "n", "t", "e", "r", "v", "a", "l", ":", "a", "b", "c">>,
      <<"i", "n", "t", "e", "r", "v", "a", "l", ":", "5">>,
      <<"i", "n", "t", "e", "r", "v", "a", "l", ":">>,
      <<"o", "n", "c", "e", ":", "2", "0", "2", "4", "-", "0", "3", "-", "0", "8", "T", "1", "6", ":", "3", "0">>,
      <<"o", "n", "c", "e", ":", "2", "0", "2", "4", "-", "0", "3", "-", "0", "8", " ", "1", "6", ":", "3", "0", ":", "0", "0">>,
      <<"c", "r", "o", "n", ":", "0", " ", "1", " ", "*", " ", "*", " ", "*">>,
      <<"d", "a", "i", "l", "y">>,
      <<"w", "e", "e", "k", "l", "y", ":", "1">>,
      <<>>,
      <<":", "3", "0">>,
      <<"D", "a", "i", "l", "y", ":", "0", "9", ":", "0", "0">> }

\* The instants time.Now() returns: the epoch, instants on and off a whole
\* minute, and instants around the two offset changes of
\* America/Los_Angeles (01:45 PST and 03:15 PDT of 2024-03-10; 00:00 PDT,
\* 01:45 PDT, 01:45 PST and 23:59 PST of 2024-11-03).
CalcInstants ==
    { 0, 1800, 64817,
      DSTStart - 15 * Minute, DSTStart + 15 * Minute,
      DSTEnd - 2 * Hour, DSTEnd - 15 * Minute, DSTEnd + 45 * Minute,
      DSTEnd + 22 * Hour + 59 * Minute }

\* Tool.add, line 128: ParseSchedule(args.Schedule); an error is returned.
CalcParse ==
    /\ cpc = "input"
    /\ cparse' = ParseSchedule(cin.text)
    /\ cpc' = "parsed"
    /\ UNCHANGED <<cin, cnext, storeVars, handlerVars, pluginVars, botVars>>

\* Create, line 68: CalculateNextRun on the parsed kind and value.
CalcNextRun ==
    /\ cpc = "parsed"
    /\ cparse.ok
    /\ cnext' = CalculateNextRun(cparse.val.scheduleType, cparse.val.scheduleValue,
                                 cin.tz, cin.from)
    /\ cpc' = "done"
    /\ UNCHANGED <<cin, cparse, storeVars, handlerVars, pluginVars, botVars>>

\* ------------------------------------------------------------------------
\* Specifications
\* ------------------------------------------------------------------------

\* main, line 46-111: the state after construction of the store, the
\* scheduler, the handler and the plugin manager.
Constructed ==
    /\ now = 0
    /\ rows = <<>>
    /\ nextID = 1
    /\ frame = [g \in Goroutines |-> IdleFrame]
    /\ batch = <<>>
    /\ idx = 0
    /\ ran = <<>>
    /\ lastErr = ""
    /\ ops = 0
    /\ hpc = "idle"
    /\ memory = <<>>
    /\ messages = <<>>
    /\ resp = NoResponse
    /\ tci = 0
    /\ round = 0
    /\ hret = NoReturn
    /\ turn = 0
    /\ hdisp = NoDispatch
    /\ hcall = NoCall
    /\ built = "none"
    /\ pluginDir = [kind |-> "notexist", entries |-> <<>>]
    /\ plugins = <<>>
    /\ internalTools = <<>>
    /\ toolCtx = <<>>
    /\ disp = IdleDispatch
    /\ proc = NoProc
    /\ spawned = 0
    /\ dres = NoResult
    /\ boots = 1
    /\ lost = {}
    /\ ctxDone = FALSE
    /\ exited = FALSE
    /\ tpc = [t \in {"reminder", "summary"} |-> "select"]
    /\ operatorAddress = <<>>
    /\ lastMsg = [msg |-> <<>>, handled |-> FALSE, chatID |-> <<>>, text |-> <<>>,
                  reply |-> <<>>]
    /\ tchat = [ptr |-> <<>>, len |-> 0]
    /\ rpc = [g \in Goroutines |-> [pc |-> "idle", conv |-> <<>>, todo |-> {}]]
    /\ lastAdd = [made |-> FALSE, conv |-> <<>>, recipient |-> <<>>]

Init ==
    /\ Constructed
    /\ cpc = "idle"
    /\ cin = [text |-> <<>>, tz |-> "", from |-> 0]
    /\ cparse = Err("")
    /\ cnext = Err("")
    /\ sched = [hour |-> 7, lastSent |-> FarPast, called |-> {}, sent |-> {}]

\* The reminder store, the poller goroutine and the reminder tool on main.
Next ==
    \/ \E in \in CreateInputs : Create(in.stype, in.svalue, in.tz, in.recipient)
    \/ \E id \in 1..MaxID : Delete(id)
    \/ \E id \in 1..MaxID, e \in BOOLEAN : SetEnabled(id, e)
    \/ \E id \in 1..MaxID : RunNow(id)
    \/ RunNowReturn
    \/ PollerTick
    \/ PollerLoop
    \/ PollerReturn
    \/ \E g \in Goroutines, o \in Outcomes : Execute(g, o)
    \/ \E g \in Goroutines, o \in Outcomes : Send(g, o)
    \/ \E g \in Goroutines : MarkRead(g)
    \/ \E g \in Goroutines : MarkUpdate(g)
    \/ Advance

Spec == Init /\ [][Next]_vars

\* The reminder store, the poller goroutine and the tool calls that write
\* the table, in a process that may stop and be started again.
CrashNext ==
    \/ \E in \in CreateInputs : Create(in.stype, in.svalue, in.tz, in.recipient)
    \/ \E id \in 1..MaxID : Delete(id)
    \/ \E id \in 1..MaxID, e \in BOOLEAN : SetEnabled(id, e)
    \/ PollerTick
    \/ PollerLoop
    \/ PollerReturn
    \/ \E o \in Outcomes : Execute("poller", o)
    \/ \E o \in Outcomes : Send("poller", o)
    \/ MarkRead("poller")
    \/ MarkUpdate("poller")
    \/ Advance
    \/ Crash

CrashSpec == Init /\ [][CrashNext]_vars

\* ------------------------------------------------------------------------
\* The periodic triggers and their cancellation (cmd/tron/main.go,
\* scheduler/scheduler.go, reminder Scheduler.Start)
\* ------------------------------------------------------------------------

\* time.Now() moves on to one of the sampled instants: around the hours 1
\* and 7 of 9 and 10 March and of 3 November 2024 in America/Los_Angeles,
\* the day whose hour 1 comes twice.
Tock ==
    /\ ~exited
    /\ \E t \in {30600, 33000, 35400, 36600, 54600, 57000, 119400,
                 DSTEnd - 3000, DSTEnd + 600, DSTEnd + 4200} :
         t > now /\ now' = t
    /\ UNCHANGED <<rows, nextID, frame, batch, idx, ran, lastErr, ops>>
    /\ UNCHANGED <<handlerVars, pluginVars, calcVars, connVars, boots, lost, sched, ctxDone, exited, tpc>>

\* The select of a Start takes the ticker's case (it may, also when
\* ctx.Done() is ready too): the due-check of the trigger begins.
TickFires(t) ==
    /\ ~exited
    /\ tpc[t] = "select"
    /\ tpc' = [tpc EXCEPT ![t] = "check"]
    /\ UNCHANGED <<storeVars, handlerVars, pluginVars, calcVars, connVars, boots, lost, sched, ctxDone, exited>>

\* The select of a Start takes the case of ctx.Done(): Start returns.
ObserveDone(t) ==
    /\ ~exited
    /\ ctxDone
    /\ tpc[t] = "select"
    /\ tpc' = [tpc EXCEPT ![t] = "returned"]
    /\ UNCHANGED <<storeVars, handlerVars, pluginVars, calcVars, connVars, boots, lost, sched, ctxDone, exited>>

\* checkDueReminders returns to the select of the reminder poller.
CheckDueRemindersReturns ==
    /\ ~exited
    /\ tpc["reminder"] = "check"
    /\ tpc' = [tpc EXCEPT !["reminder"] = "select"]
    /\ UNCHANGED <<storeVars, handlerVars, pluginVars, calcVars, connVars, boots, lost, sched, ctxDone, exited>>

\* checkAndSend that takes every tick of the hour since the last send.
checkAndSendEveryTick(so, eo) ==
    /\ ~exited
    /\ tpc["summary"] = "check"
    /\ LET wall == Wall("America/Los_Angeles", now) IN
       IF (wall % Day) \div Hour # sched.hour \/ ~(sched.lastSent < now)
       THEN sched' = sched
       ELSE IF so = "err"
       THEN sched' = [sched EXCEPT !.called = @ \cup {now}]
       ELSE IF eo = "err"
       THEN sched' = [sched EXCEPT !.called = @ \cup {now}]
       ELSE sched' = [sched EXCEPT !.called = @ \cup {now}, !.sent = @ \cup {now},
                                   !.lastSent = now]
    /\ tpc' = [tpc EXCEPT !["summary"] = "select"]
    /\ UNCHANGED <<storeVars, handlerVars, pluginVars, calcVars, connVars, boots, lost, ctxDone, exited>>

\* Scheduler.checkAndSend, with the outcomes so of summaryFunc and eo of
\* sendFunc, and its return to the select of Start.
checkAndSend(so, eo) ==
    /\ ~exited
    /\ tpc["summary"] = "check"
    /\ LET wall  == Wall("America/Los_Angeles", now)
           today == DateWall(wall - (wall % Day), "America/Los_Angeles")
       IN IF (wall % Day) \div Hour # sched.hour
          THEN sched' = sched
          ELSE IF ~(sched.lastSent < today)
          THEN sched' = sched
          ELSE IF so = "err"
          THEN sched' = [sched EXCEPT !.called = @ \cup {now}]
          ELSE IF eo = "err"
          THEN sched' = [sched EXCEPT !.called = @ \cup {now}]
          ELSE sched' = [sched EXCEPT !.called = @ \cup {now}, !.sent = @ \cup {now},
                                      !.lastSent = now]
    /\ tpc' = [tpc EXCEPT !["summary"] = "select"]
    /\ UNCHANGED <<storeVars, handlerVars, pluginVars, calcVars, connVars, boots, lost, ctxDone, exited>>

\* main takes the signal and calls cancel().
Cancel ==
    /\ ~ctxDone
    /\ ctxDone' = TRUE
    /\ UNCHANGED <<storeVars, handlerVars, pluginVars, calcVars, connVars, boots, lost, sched, exited, tpc>>

\* main returns after cancel(): the process ends with its goroutines
\* wherever they are.
MainReturns ==
    /\ ctxDone
    /\ ~exited
    /\ exited' = TRUE
    /\ UNCHANGED <<storeVars, handlerVars, pluginVars, calcVars, connVars, boots, lost, sched, ctxDone, tpc>>

\* scheduler.NewScheduler with the configured hour, and the rest as
\* constructed.
TriggerInit ==
    /\ Constructed
    /\ cpc = "idle"
    /\ cin = [text |-> <<>>, tz |-> "", from |-> 0]
    /\ cparse = Err("")
    /\ cnext = Err("")
    /\ sched \in [hour : {1, 7}, lastSent : {FarPast}, called : {{}}, sent : {{}}]

TriggerNext ==
    \/ Tock
    \/ \E t \in {"reminder", "summary"} : TickFires(t)
    \/ \E t \in {"reminder", "summary"} : ObserveDone(t)
    \/ CheckDueRemindersReturns
    \/ \E so \in Outcomes, eo \in Outcomes : checkAndSend(so, eo)
    \/ Cancel
    \/ MainReturns

\* The two triggers and main.  A due-check that began returns, a select
\* with ctx.Done() ready takes that case after finitely many ticks, and main
\* returns after cancel().
TriggerSpec ==
    /\ TriggerInit
    /\ [][TriggerNext]_vars
    /\ WF_vars(CheckDueRemindersReturns)
    /\ WF_vars(\E so \in Outcomes, eo \in Outcomes : checkAndSend(so, eo))
    /\ \A t \in {"reminder", "summary"} : SF_vars(ObserveDone(t))
    /\ WF_vars(MainReturns)

\* ------------------------------------------------------------------------
\* The message loop of main (cmd/tron/main.go)
\* ------------------------------------------------------------------------

\* isOperator(msg, operator)
isOperator(msg, operator) ==
    LET HasPrefix(str, prefix) ==
            Len(str) >= Len(prefix) /\ SubSeq(str, 1, Len(prefix)) = prefix
        TrimPrefix(str, prefix) ==
            IF HasPrefix(str, prefix) THEN SubSeq(str, Len(prefix) + 1, Len(str)) ELSE str
        lower(c) == CASE c = "E" -> "e" [] c = "O" -> "o" [] c = "U" -> "u" [] OTHER -> c
        ToLower(str) == [i \in 1..Len(str) |-> lower(str[i])]
        norm(str) == ToLower(TrimPrefix(TrimPrefix(str, <<"+">>), <<"u", ":">>))
    IN \E c \in {msg.Source, msg.SourceUUID, msg.SourceNumber, msg.SourceName} :
          norm(c) = norm(operator)

\* The messages that arrive: from the operator's account (+15, uuid ab) as
\* signal-cli reports it in three ways, and from another account (+27, uuid
\* cd) under profile names of its choice; direct and in the group g; with
\* and without the trigger keyword t.
IncomingMessages ==
    LET op == [sender : {"operator"}, Source : {<<"+", "1", "5">>},
               SourceUUID : {<<"a", "b">>, <<>>}, SourceNumber : {<<"+", "1", "5">>, <<>>},
               SourceName : {<<"O", "p">>}]
        other == [sender : {"other"}, Source : {<<"+", "2", "7">>},
                  SourceUUID : {<<"c", "d">>}, SourceNumber : {<<"+", "2", "7">>},
                  SourceName : {<<"E", "v", "e">>, <<"+", "1", "5">>,
                                <<"U", ":", "1", "5">>, <<"u", ":", "1", "5">>}]
        texts == {<<"t", " ", "h", "i">>, <<"t", "h", "i">>, <<"h", "i">>, <<"t">>}
    IN { [sender |-> a.sender, Source |-> a.Source, SourceUUID |-> a.SourceUUID,
          SourceNumber |-> a.SourceNumber, SourceName |-> a.SourceName,
          IsGroup |-> g, GroupID |-> IF g THEN <<"g">> ELSE <<>>, Message |-> m] :
           a \in op \cup other, g \in BOOLEAN, m \in texts }

\* One pass of main's loop for the message msg, line 127-182, with the
\* outcome ho of handler.HandleMessage.  The operator is configured as +15
\* and the trigger keyword as t.
Receive(msg, ho) ==
    LET HasPrefix(str, prefix) ==
            Len(str) >= Len(prefix) /\ SubSeq(str, 1, Len(prefix)) = prefix
        keyword  == <<"t", " ">>
        ignored  == [msg |-> msg, handled |-> FALSE, chatID |-> <<>>, text |-> <<>>,
                     reply |-> <<>>]
        response == IF ho = "ok"
                    THEN <<"answer">>
                    ELSE <<"Sorry, I encountered an error processing your request.">>
        address  == IF operatorAddress # <<>> THEN operatorAddress
                    ELSE IF msg.SourceUUID # <<>> THEN msg.SourceUUID
                    ELSE IF msg.SourceNumber # <<>> THEN msg.SourceNumber
                    ELSE msg.Source
    IN /\ ~exited
       /\ IF ~isOperator(msg, <<"+", "1", "5">>)
          THEN lastMsg' = ignored /\ UNCHANGED operatorAddress
          ELSE IF msg.IsGroup
          THEN /\ UNCHANGED operatorAddress
               /\ IF ~HasPrefix(msg.Message, keyword)
                  THEN lastMsg' = ignored
                  ELSE lastMsg' =
                         [msg |-> msg, handled |-> TRUE,
                          chatID |-> <<"g", "r", "o", "u", "p", ":">> \o msg.GroupID,
                          text |-> SubSeq(msg.Message, Len(keyword) + 1, Len(msg.Message)),
                          reply |-> [api |-> "SendGroupMessage", addr |-> msg.GroupID,
                                     message |-> response]]
          ELSE /\ operatorAddress' = address
               /\ lastMsg' =
                    [msg |-> msg, handled |-> TRUE,
                     chatID |-> <<"d", "m", ":">> \o address,
                     text |-> msg.Message,
                     reply |-> [api |-> "SendMessage",
                                addr |-> IF address = <<>> THEN <<"+", "1", "5">> ELSE address,
                                message |-> response]]
       /\ UNCHANGED <<storeVars, handlerVars, pluginVars, calcVars>>
       /\ UNCHANGED <<boots, lost, sched, ctxDone, exited, tpc, tchat, rpc, lastAdd>>

MessageNext == \E msg \in IncomingMessages, ho \in Outcomes : Receive(msg, ho)

MessageSpec == Init /\ [][MessageNext]_vars

\* ------------------------------------------------------------------------
\* The reminder Tool shared by the goroutines (plugins/plugins.go,
\* reminder Tool.SetContext, Tool.add)
\* ------------------------------------------------------------------------

\* An orchestration run of goroutine g, for the conversation conv, comes to
\* ExecuteWithContext for a call of the reminder tool's add.
ExecuteWithContext(g, conv) ==
    /\ rpc[g].pc = "idle"
    /\ rpc' = [rpc EXCEPT ![g] = [pc |-> "bind", conv |-> conv, todo |-> {"ptr", "len"}]]
    /\ UNCHANGED <<storeVars, handlerVars, pluginVars, calcVars>>
    /\ UNCHANGED <<boots, lost, sched, ctxDone, exited, tpc, operatorAddress, lastMsg, tchat, lastAdd>>

\* Tool.SetContext: t.chatID = chatID, a store of the two words of the
\* string in an order the build chooses, with no lock held.
SetContext(g, w) ==
    /\ rpc[g].pc = "bind"
    /\ w \in rpc[g].todo
    /\ tchat' = IF w = "ptr" THEN [tchat EXCEPT !.ptr = rpc[g].conv]
                             ELSE [tchat EXCEPT !.len = Len(rpc[g].conv)]
    /\ rpc' = [rpc EXCEPT ![g].todo = @ \ {w},
                          ![g].pc = IF rpc[g].todo = {w} THEN "execute" ELSE "bind"]
    /\ UNCHANGED <<storeVars, handlerVars, pluginVars, calcVars>>
    /\ UNCHANGED <<boots, lost, sched, ctxDone, exited, tpc, operatorAddress, lastMsg, lastAdd>>

\* Tool.add: the reminder is created with Recipient: t.chatID, the string
\* the two words describe at the time of the read; bytes past the end of the
\* string the pointer is for are whatever the heap holds there.
ToolAdd(g, pad) ==
    /\ rpc[g].pc = "execute"
    /\ lastAdd' =
         [made |-> TRUE, conv |-> rpc[g].conv,
          recipient |-> IF tchat.len <= Len(tchat.ptr)
                        THEN SubSeq(tchat.ptr, 1, tchat.len)
                        ELSE tchat.ptr \o [i \in 1..(tchat.len - Len(tchat.ptr)) |-> pad]]
    /\ rpc' = [rpc EXCEPT ![g] = [pc |-> "idle", conv |-> <<>>, todo |-> {}]]
    /\ UNCHANGED <<storeVars, handlerVars, pluginVars, calcVars>>
    /\ UNCHANGED <<boots, lost, sched, ctxDone, exited, tpc, operatorAddress, lastMsg, tchat>>

\* The message goroutine (main) runs for a direct or a group conversation,
\* the poller for the conversation of the reminder it executes.
SharedToolNext ==
    \/ \E conv \in {<<"d", "m", ":", "a", "b">>, <<"g", "r", "o", "u", "p", ":", "g">>} :
         ExecuteWithContext("main", conv)
    \/ \E r \in {<<>>, <<"d", "m", ":", "a", "b">>, <<"g", "r", "o", "u", "p", ":", "g">>} :
         ExecuteWithContext("poller", ExecuteChatID(r))
    \/ \E g \in Goroutines, w \in {"ptr", "len"} : SetContext(g, w)
    \/ \E g \in Goroutines, pad \in {"?", "!"} : ToolAdd(g, pad)

SharedToolSpec == Init /\ [][SharedToolNext]_vars

\* The orchestration loop.
HandlerNext ==
    \/ \E o \in AddOutcomes : HandleStart(o)
    \/ \E o \in Outcomes : HandleHistory(o)
    \/ ChatFails
    \/ \E r \in Responses : Chat(r)
    \/ \E o \in AddOutcomes : HandleFinal(o)
    \/ \E tc \in Calls : \E d \in DispatchResults(tc) : HandleTool(d)

HandlerSpec == Init /\ [][HandlerNext]_vars

\* The tool registry and dispatcher.
PluginNext ==
    \/ \E l \in Listings : NewManager(l)
    \/ \E t \in InternalTools : RegisterTool(t.name, t.aware)
    \/ \E api \in {"Execute", "ExecuteWithContext"},
          n \in {"reminder", "weather", "notes", "off", "nope"},
          a \in {"{}", "not json"},
          c \in {"chat1", "chat2"} :
         Dispatch(api, n, a, c)
    \/ ProcExit
    \/ ProcKill
    \/ RunReturns
    \/ DispatchReturn
    \/ PluginAdvance

PluginSpec == Init /\ [][PluginNext]_vars

\* The state in which the reminder tool's add is entered: everything else
\* as after construction, the inputs any of the modelled ones (two zone
\* names the tz database knows and one it does not).
CalcInit ==
    /\ Constructed
    /\ cpc = "input"
    /\ cin \in [text : CalcTexts,
                 tz   : {"UTC", "America/Los_Angeles", "Mars/Olympus"},
                 from : CalcInstants]
    /\ cparse = Err("")
    /\ cnext = Err("")
    /\ sched = [hour |-> 7, lastSent |-> FarPast, called |-> {}, sent |-> {}]

\* The schedule calculus.
CalcNext ==
    \/ CalcParse
    \/ CalcNextRun

CalcSpec == CalcInit /\ [][CalcNext]_vars

\* ------------------------------------------------------------------------
\* Properties
\* ------------------------------------------------------------------------

\* executeReminder returns on goroutine g in this step.
Returns(g) == frame[g].pc # "ret" /\ frame'[g].pc = "ret"

\* The poller takes its ListDue snapshot in this step.
Ticks == frame["poller"].pc = "idle" /\ frame'["poller"].pc = "loop"

\* The UPDATE of MarkExecuted runs on goroutine g in this step, for a row
\* that is still stored.
Updates(g) ==
    /\ frame[g].pc = "update"
    /\ frame'[g].pc = "ret"
    /\ frame[g].mr.ID \in DOMAIN rows

\* C1: Whenever executeReminder returns, on the poller or under RunNow,
\* MarkExecuted has been called for the task, also when the delivery failed.
C1_MarkedAfterEveryExecution ==
    [][\A g \in Goroutines : Returns(g) => frame'[g].markCalled]_vars

\* C2: No ListDue of the poller returns an occurrence (a task with its
\* nextRun) for which a MarkExecuted issued under RunNow is between its read
\* (GetByID) and its UPDATE.
C2_ListDueAtomicWithMarkExecuted ==
    [][Ticks =>
         \A k \in 1..Len(batch') :
            ~ (/\ frame["main"].pc = "update"
               /\ frame["main"].mr.ID = batch'[k].ID
               /\ frame["main"].mr.NextRun = batch'[k].NextRun)]_vars

\* C3: Every stored recurring task that has a lastRun has
\* nextRun = CalculateNextRun(type, value, timezone, lastRun), strictly after
\* lastRun; and nextRun is never left stale after an execution: once the
\* poller's execution of a due occurrence of a stored recurring task has
\* returned, the stored nextRun is later than that occurrence.
C3_NextRunConsistentAndNeverStale ==
    \A id \in DOMAIN rows :
       LET r == rows[id]
           c == CalculateNextRun(r.ScheduleType, r.ScheduleValue, r.Timezone, r.LastRun.Time)
       IN r.ScheduleType # "once" =>
            /\ r.LastRun.Valid =>
                 (c.ok /\ r.NextRun = c.val /\ r.NextRun > r.LastRun.Time)
            /\ (frame["poller"].pc = "ret" /\ frame["poller"].r.ID = id)
                 => r.NextRun > frame["poller"].r.NextRun

\* C4: The result of ListDue holds only enabled tasks whose nextRun is not
\* later than the instant of the query, and it holds every such task.
C4_ListDueExactlyEnabledAndDue ==
    [][Ticks =>
         /\ \A k \in 1..Len(batch') :
              /\ batch'[k].Enabled
              /\ batch'[k].NextRun <= now
              /\ batch'[k].ID \in DOMAIN rows
              /\ batch'[k] = rows[batch'[k].ID]
         /\ \A id \in DOMAIN rows :
              (rows[id].Enabled /\ rows[id].NextRun <= now)
                 => \E k \in 1..Len(batch') : batch'[k].ID = id]_vars

\* A tick whose result holds a task and leaves out a stored task that is
\* disabled although its nextRun has come.
C4_Witness ==
    /\ frame["poller"].pc = "loop"
    /\ idx = 1
    /\ Len(batch) >= 1
    /\ \E id \in DOMAIN rows :
         /\ ~rows[id].Enabled
         /\ rows[id].NextRun <= now
         /\ \A k \in 1..Len(batch) : batch[k].ID # id

\* C5: When MarkExecuted completes for a task whose kind is not once, with t
\* the instant it took, the stored lastRun is t, the stored nextRun is
\* CalculateNextRun(kind, value, timezone, t), and enabled is as before.
C5_MarkExecutedRecurring ==
    [][\A g \in Goroutines :
         (Updates(g) /\ frame[g].mr.ScheduleType # "once") =>
            LET id == frame[g].mr.ID
                t  == frame[g].mnow
                c  == CalculateNextRun(rows[id].ScheduleType, rows[id].ScheduleValue,
                                       rows[id].Timezone, t)
            IN /\ c.ok
               /\ ~frame'[g].markErr
               /\ rows'[id].LastRun = SomeTime(t)
               /\ rows'[id].NextRun = c.val
               /\ rows'[id].Enabled = rows[id].Enabled]_vars

\* MarkExecuted has completed for a recurring task whose nextRun it moved.
C5_Witness ==
    \E g \in Goroutines :
       /\ frame[g].pc = "ret"
       /\ frame[g].markCalled
       /\ ~frame[g].markErr
       /\ frame[g].mr.ScheduleType \in {"daily", "hourly", "interval", "cron"}
       /\ frame[g].mr.ID \in DOMAIN rows
       /\ rows[frame[g].mr.ID].LastRun = SomeTime(frame[g].mnow)
       /\ rows[frame[g].mr.ID].NextRun > frame[g].mr.NextRun

\* C6: When MarkExecuted completes for a once task, the task is disabled,
\* its lastRun is set, and its nextRun is the value it had before the call.
C6_MarkExecutedOnce ==
    [][\A g \in Goroutines :
         (Updates(g) /\ frame[g].mr.ScheduleType = "once") =>
            LET id == frame[g].mr.ID IN
            /\ ~rows'[id].Enabled
            /\ rows'[id].LastRun = SomeTime(frame[g].mnow)
            /\ rows'[id].NextRun = rows[id].NextRun]_vars

\* MarkExecuted has completed for a once task that was enabled and due.
C6_Witness ==
    \E g \in Goroutines :
       /\ frame[g].pc = "ret"
       /\ frame[g].markCalled
       /\ ~frame[g].markErr
       /\ frame[g].r.Enabled
       /\ frame[g].mr.ScheduleType = "once"
       /\ frame[g].mr.ID \in DOMAIN rows
       /\ ~rows[frame[g].mr.ID].Enabled
       /\ rows[frame[g].mr.ID].LastRun.Valid
       /\ rows[frame[g].mr.ID].NextRun = frame[g].mr.NextRun

\* C7: When the poller's execution of a once task returns, whatever the
\* outcome of the execution and of the delivery, the task (if still stored)
\* is disabled, so that no later tick finds it due.
C7_OnceDisabledAfterPollerExecution ==
    [][(Returns("poller") /\ frame'["poller"].r.ScheduleType = "once"
          /\ frame'["poller"].r.ID \in DOMAIN rows')
         => ~rows'[frame'["poller"].r.ID].Enabled]_vars

C9_FailureReportDeliveredOnce ==
    \A g \in Goroutines :
       /\ frame[g].pc \in {"exec", "send"} => Len(frame[g].sent) = 0
       /\ frame[g].pc \in {"mark", "update", "ret"} =>
            /\ Len(frame[g].sent) = 1
            /\ frame[g].sent[1].to = frame[g].r.Recipient
            /\ frame[g].execErr =>
                 frame[g].sent[1].message = <<"Reminder", frame[g].r.ID, "failed", "llm chat">>

\* An execution failed and its report was handed to sendFunc.
C9_Witness ==
    \E g \in Goroutines :
       /\ frame[g].pc = "ret"
       /\ frame[g].execErr
       /\ Len(frame[g].sent) = 1

\* The entries of the current round: the assistant entry with the calls of
\* the response, then one tool entry per dispatched call, in the calls'
\* order, each with the identifier of its call.
RoundShape ==
    (hpc \in {"tools", "chat"} /\ Len(resp.ToolCalls) > 0) =>
       LET calls == resp.ToolCalls
           k     == IF hpc = "tools" THEN tci - 1 ELSE Len(calls)
           L     == Len(messages)
       IN /\ L >= k + 1
          /\ messages[L - k].Role = "assistant"
          /\ messages[L - k].ToolCalls = calls
          /\ \A i \in 1..k :
               /\ messages[L - k + i].Role = "tool"
               /\ messages[L - k + i].ToolCallID = calls[i].ID

\* Within one HandleMessage the list only grows, by one entry per step.
GrowsByAppend ==
    hpc \in {"chat", "tools"} =>
       /\ Len(messages') \in {Len(messages), Len(messages) + 1}
       /\ SubSeq(messages', 1, Len(messages)) = messages

\* C10: In every round in which the LLM requests tool calls, the list gets
\* one assistant entry carrying those calls and then one tool entry per
\* call, in the same order, the i-th with the i-th call's identifier;
\* entries already in the list are never modified.
C10_ToolEntriesFollowCalls == []RoundShape /\ [][GrowsByAppend]_vars

\* A round with two tool calls has been completed.
C10_Witness ==
    /\ hpc = "chat"
    /\ Len(resp.ToolCalls) = 2
    /\ resp.ToolCalls[1].ID # resp.ToolCalls[2].ID
    /\ messages[Len(messages)].ToolCallID = resp.ToolCalls[2].ID

\* HandleMessage dispatches the call at position tci in this step.
DispatchStep == hpc = "tools" /\ tci' = tci + 1

\* C11: A dispatch error of any kind (unknown tool, timeout, execution
\* failure, an in-process tool's error) never aborts HandleMessage: the
\* call's tool entry carries "Error: " followed by the error, HandleMessage
\* does not return, the remaining calls of the round are dispatched next and
\* after the last one the loop goes on to the next LLM request.
C11_DispatchErrorBecomesToolEntry ==
    [][(DispatchStep /\ hdisp'.failed) =>
         LET tc   == resp.ToolCalls[tci]
             last == messages'[Len(messages')]
         IN /\ hdisp' \in DispatchResults(tc)
            /\ Len(messages') = Len(messages) + 1
            /\ last.Role = "tool"
            /\ last.ToolCallID = tc.ID
            /\ last.Content = <<"Error: ">> \o hdisp'.err
            /\ hret' = NoReturn
            /\ hpc' = IF tci < Len(resp.ToolCalls) THEN "tools" ELSE "chat"]_vars

\* A round whose first call timed out and whose second call was unknown has
\* been completed and the next LLM request is due.
C11_Witness ==
    /\ hpc = "chat"
    /\ Len(resp.ToolCalls) = 2
    /\ messages[Len(messages) - 1].Content = <<"Error: ">> \o TimeoutError(30)
    /\ messages[Len(messages)].Content = <<"Error: ">> \o UnknownPluginError("nope")
    /\ ~hret.done

\* HandleMessage returns in this step.
HandleReturns == hpc # "idle" /\ hpc' = "idle"

\* C12: HandleMessage returns successfully exactly in the round whose LLM
\* response carries no tool calls, with that response's text: a successful
\* return happens only on a tool-free response and in the round that
\* received it; a tool-free response is followed by the return without
\* another request; a response with tool calls is never followed by a return
\* before the next LLM request, whatever the number of rounds so far; the
\* only other return is the failure of an LLM call.
C12_ReturnsExactlyOnToolFreeResponse ==
    [][/\ (HandleReturns /\ ~hret'.err) =>
             /\ Len(resp.ToolCalls) = 0
             /\ hret'.text = resp.Content
             /\ round' = round
             /\ hpc = "final"
       /\ (HandleReturns /\ hret'.err) => (hpc = "chat" /\ hret'.errText = ChatError)
       /\ (hpc = "final" /\ hpc' # hpc) => (HandleReturns /\ ~hret'.err)
       /\ (hpc = "chat" /\ round' = round + 1 /\ ~HandleReturns) =>
             hpc' = (IF Len(resp'.ToolCalls) = 0 THEN "final" ELSE "tools")
       /\ (hpc = "tools" /\ hpc' # hpc) => hpc' = "chat"]_vars

\* HandleMessage has returned the answer of its third round, after two
\* rounds of tool calls.
C12_Witness ==
    /\ hpc = "idle"
    /\ hret.done
    /\ ~hret.err
    /\ round = 3
    /\ hret.text = <<"a">>
    /\ Len(messages) >= 5

\* s is a suffix of t.
IsSuffix(s, t) ==
    Len(s) <= Len(t) /\ s = SubSeq(t, Len(t) - Len(s) + 1, Len(t))

\* C13: The message list of the first LLM request of a HandleMessage call is
\* the system prompt, then the prior history (as far as the store's window
\* keeps it), then the new user message as the last entry, also when
\* AddMessage or GetHistory failed.
C13_FirstRequestEndsWithUserMessage ==
    (hpc = "chat" /\ round = 0) =>
       /\ Len(messages) >= 2
       /\ messages[1] = Msg("system", DynamicPrompt)
       /\ messages[Len(messages)] = Msg("user", hcall.user)
       /\ IsSuffix(SubSeq(messages, 2, Len(messages) - 1), hcall.prior)

\* C14: A failure of AddMessage for the user message, of GetHistory, or of
\* AddMessage for the final answer never makes HandleMessage return an
\* error (the only error it returns is that of a failed LLM call) and never
\* changes the text it returns, which is the text of the LLM's tool-free
\* response.
C14_HistoryFailuresAreSwallowed ==
    (hpc = "idle" /\ hret.done /\ (hcall.addErr \/ hcall.histErr \/ hcall.finalErr)) =>
       /\ hret.err => (hret.errText = ChatError /\ ~hcall.finalErr)
       /\ ~hret.err => (hret.text = resp.Content /\ hret.errText = <<>>)

\* HandleMessage has returned the answer although all three history
\* operations failed.
C14_Witness ==
    /\ hpc = "idle"
    /\ hret.done
    /\ ~hret.err
    /\ hret.text = <<"a">>
    /\ hcall.addErr
    /\ hcall.histErr
    /\ hcall.finalErr

\* A dispatch that returns without running a process (an in-process tool or
\* an unknown name) happens in this step; dres' holds the call.
ImmediateDispatch == disp.pc = "idle" /\ disp'.pc = "idle" /\ dres' # dres

\* A dispatch starts a child process in this step; disp' holds the call.
SpawnStep == disp.pc = "idle" /\ disp'.pc = "run"

\* The dispatch of an external plugin returns in this step.
ExternalReturn == disp.pc = "check" /\ disp'.pc = "idle"

\* C15: Execute and ExecuteWithContext of a name that is neither a
\* registered in-process tool nor a loaded plugin return an empty result
\* and the unknown-plugin error, for every arguments string and chat id,
\* start no process and leave the registry as it is; a process is only ever
\* started for a loaded plugin.
C15_UnknownNameFails ==
    /\ [][(ImmediateDispatch /\ dres'.name \notin DOMAIN internalTools
              /\ dres'.name \notin DOMAIN plugins) =>
            /\ dres'.ret = Failure(UnknownPluginError(dres'.name))
            /\ dres'.ret.result = <<>>
            /\ spawned' = spawned
            /\ proc' = proc
            /\ plugins' = plugins
            /\ internalTools' = internalTools]_vars
    /\ [][SpawnStep => disp'.name \in DOMAIN plugins]_vars

\* A disabled plugin's name was dispatched through Execute with arguments
\* that are not JSON, in a registry that has a plugin and an in-process tool.
C15_Witness ==
    /\ dres.name = "off"
    /\ dres.api = "Execute"
    /\ dres.args = "not json"
    /\ dres.ret = Failure(UnknownPluginError("off"))
    /\ DOMAIN plugins # {}
    /\ DOMAIN internalTools # {}

\* C16: When the child of an external plugin is still running at the
\* deadline of its timeout it is killed, and the dispatch returns the
\* timeout failure with an empty result, whatever the child had written to
\* stdout; the child has been waited for when the dispatch returns.
C16_TimeoutDiscardsOutput ==
    /\ [][(ExternalReturn /\ proc.killed) =>
            /\ dres'.ret = Failure(TimeoutError(disp.timeout))
            /\ dres'.ret.result = <<>>
            /\ proc.state = "reaped"]_vars
    /\ [][ExternalReturn => proc.state = "reaped"]_vars
    /\ [](proc.killed => now >= disp.deadline \/ disp.pc = "idle")

\* A dispatch of the default-timeout plugin returned the timeout failure
\* after its child, killed at the deadline, had written to stdout.
C16_Witness ==
    /\ disp.pc = "idle"
    /\ proc.state = "reaped"
    /\ proc.killed
    /\ proc.out = <<"part">>
    /\ dres.name = "weather"
    /\ dres.ret = Failure(TimeoutError(DefaultTimeout))

C18_InProcessWins ==
    /\ [][SpawnStep => disp'.name \notin DOMAIN internalTools]_vars
    /\ [][(ImmediateDispatch /\ dres'.name \in DOMAIN internalTools) =>
            /\ dres'.ret \in ToolOutcomes
            /\ spawned' = spawned
            /\ proc' = proc]_vars

\* The name reminder is a loaded plugin and a registered tool, and its
\* dispatch was answered by the tool without any process.
C18_Witness ==
    /\ "reminder" \in DOMAIN plugins
    /\ "reminder" \in DOMAIN internalTools
    /\ dres.name = "reminder"
    /\ dres.ret \in ToolOutcomes
    /\ spawned = 0

\* C19: GetTools returns at most one descriptor per tool name and
\* PluginCount counts each name once.
C19_ToolNamesUnique ==
    built = "ok" =>
       \A tools \in GetTools :
          /\ \A i, j \in 1..Len(tools) : i # j => tools[i] # tools[j]
          /\ PluginCount = Cardinality({tools[i] : i \in 1..Len(tools)})

\* The entry is a subdirectory with a well-formed definition that does not
\* say enabled: false and with an executable entry point.
Loadable(entry) ==
    /\ entry.isDir
    /\ entry.def.kind = "json"
    /\ "name" \in DOMAIN entry.def.obj
    /\ ("enabled" \in DOMAIN entry.def.obj => entry.def.obj.enabled)
    /\ findExecutable(entry.files) # ""

\* C20: Every subdirectory with a well-formed definition.json and an
\* executable entry point is loaded, listed by GetTools and dispatchable
\* unless its definition says enabled: false, in particular when it omits
\* enabled.
C20_EnabledDefaultsToTrue ==
    (built = "ok" /\ pluginDir.kind = "ok") =>
       \A i \in 1..Len(pluginDir.entries) :
          Loadable(pluginDir.entries[i]) =>
             LET name == pluginDir.entries[i].def.obj.name
             IN /\ name \in DOMAIN plugins
                /\ HasPlugin(name)
                /\ \A tools \in GetTools : \E k \in 1..Len(tools) : tools[k] = name

\* ------------------------------------------------------------------------
\* The schedule calculus
\* ------------------------------------------------------------------------

\* CalculateNextRun has returned for a schedule text of this kind.
CalcDone(kind) == cpc = "done" /\ cparse.val.scheduleType = kind

\* C21: For a daily schedule HH:MM, in every zone and from every instant,
\* CalculateNextRun returns an instant strictly after from, at most 24 hours
\* after from, whose wall clock in the zone is exactly HH:MM, also on the
\* days on which the zone's offset changes.
C21_DailyNextOccurrence ==
    (CalcDone("daily") /\ cnext.ok) =>
       LET loc   == LoadLocation(cin.tz)
           parts == Split(cparse.val.scheduleValue, ":")
           hhmm  == Atoi(parts[1]).val * Hour + Atoi(parts[2]).val * Minute
       IN /\ cnext.val > cin.from
          /\ cnext.val <= cin.from + 24 * Hour
          /\ Wall(loc, cnext.val) % Day = hhmm

\* C22: For an interval schedule whose value stands for a duration D > 0,
\* CalculateNextRun returns exactly from + D; for a duration that is zero or
\* negative, or a value that is no duration, it returns an error.
C22_IntervalAddsDuration ==
    CalcDone("interval") =>
       LET d == ParseDuration(cparse.val.scheduleValue) IN
       IF d.ok /\ d.val > 0
       THEN cnext.ok /\ cnext.val = cin.from + d.val
       ELSE ~cnext.ok

\* "interval:1h30m" computed from an instant off the whole minute.
C22_Witness ==
    /\ CalcDone("interval")
    /\ cparse.val.scheduleValue = <<"1", "h", "3", "0", "m">>
    /\ cin.from = 64817
    /\ cnext.ok
    /\ cnext.val = 64817 + 90 * Minute

\* C23: For an hourly schedule MM with MM in 0..59, CalculateNextRun returns
\* the earliest instant strictly after from whose minute is MM and whose
\* seconds are zero: that minute of the current hour when it is strictly
\* after from, otherwise exactly one hour later.  A minute outside 0..59 or a
\* value that is no number is an error.
C23_HourlyNextOccurrence ==
    CalcDone("hourly") =>
       LET mm == Atoi(cparse.val.scheduleValue) IN
       IF mm.ok /\ mm.val >= 0 /\ mm.val <= 59
       THEN LET cur == (cin.from \div Hour) * Hour + mm.val * Minute IN
            /\ cnext.ok
            /\ cnext.val > cin.from
            /\ cnext.val = IF cur > cin.from THEN cur ELSE cur + Hour
       ELSE ~cnext.ok

\* C24: ParseSchedule cuts the text at its first colon, so that the value
\* keeps every further colon; it fails when the text has no colon or when
\* the part before the first colon is none of once, daily, hourly, interval
\* and cron; otherwise it returns that kind and the rest as the value.
C24_ParseScheduleSplitsAtFirstColon ==
    cpc \in {"parsed", "done"} =>
       LET i     == IndexOf(cin.text, ":", 1)
           kind  == SubSeq(cin.text, 1, i - 1)
           value == SubSeq(cin.text, i + 1, Len(cin.text))
       IN IF i = 0 \/ kind \notin { <<"o", "n", "c", "e">>,
                                    <<"d", "a", "i", "l", "y">>,
                                    <<"h", "o", "u", "r", "l", "y">>,
                                    <<"i", "n", "t", "e", "r", "v", "a", "l">>,
                                    <<"c", "r", "o", "n">> }
          THEN ~cparse.ok
          ELSE /\ cparse.ok
               /\ cparse.val.scheduleType = KindName(kind)
               /\ cparse.val.scheduleValue = value

\* A once schedule whose value holds a colon of its own.
C24_Witness ==
    /\ cpc = "parsed"
    /\ cparse.ok
    /\ cparse.val.scheduleType = "once"
    /\ IndexOf(cparse.val.scheduleValue, ":", 1) > 0

\* ------------------------------------------------------------------------
\* The store operations of the reminder tool
\* ------------------------------------------------------------------------

\* C25: Create computes nextRun from the current instant, stores the task
\* under a fresh id that no stored task has, and leaves the other tasks as
\* they are; when the calculus rejects the schedule it returns an error, no
\* row is inserted and no id is consumed.
C25_CreatePersistsOrFails ==
    [][\A in \in CreateInputs :
         Create(in.stype, in.svalue, in.tz, in.recipient) =>
            LET tz == IF in.tz = "" THEN "America/Los_Angeles" ELSE in.tz
                c  == CalculateNextRun(in.stype, in.svalue, tz, now)
            IN IF c.ok
               THEN /\ lastErr' = ""
                    /\ \E id \in DOMAIN rows' \ DOMAIN rows :
                         /\ DOMAIN rows' = DOMAIN rows \cup {id}
                         /\ \A i \in DOMAIN rows : rows'[i] = rows[i]
                         /\ rows'[id].ID = id
                         /\ rows'[id].NextRun = c.val
                         /\ rows'[id].ScheduleType = in.stype
                         /\ rows'[id].ScheduleValue = in.svalue
                         /\ rows'[id].Recipient = in.recipient
                         /\ rows'[id].Enabled
               ELSE /\ lastErr' # ""
                    /\ rows' = rows
                    /\ nextID' = nextID]_vars

\* A Create that failed after one that succeeded: one row, and the next id
\* is still the second.
C25_Witness ==
    /\ lastErr = "calculate next run"
    /\ DOMAIN rows = {1}
    /\ nextID = 2
    /\ ops = 2

\* C26: Delete and SetEnabled on an id that is not stored fail with the
\* not-found error and change no stored task; on a stored id Delete removes
\* that task and no other, and SetEnabled sets that task's flag and changes
\* no other task.
C26_DeleteAndSetEnabledHitOneTask ==
    [][/\ \A id \in 1..MaxID :
            Delete(id) =>
               IF id \in DOMAIN rows
               THEN /\ lastErr' = ""
                    /\ DOMAIN rows' = DOMAIN rows \ {id}
                    /\ \A i \in DOMAIN rows' : rows'[i] = rows[i]
               ELSE lastErr' = "not found" /\ rows' = rows
       /\ \A id \in 1..MaxID, e \in BOOLEAN :
            SetEnabled(id, e) =>
               IF id \in DOMAIN rows
               THEN /\ lastErr' = ""
                    /\ DOMAIN rows' = DOMAIN rows
                    /\ rows'[id].Enabled = e
                    /\ \A i \in DOMAIN rows \ {id} : rows'[i] = rows[i]
               ELSE lastErr' = "not found" /\ rows' = rows]_vars

\* The first of two tasks was deleted, the second is stored and disabled.
C26_Witness ==
    /\ DOMAIN rows = {2}
    /\ nextID = 3
    /\ ~rows[2].Enabled
    /\ lastErr = ""

\* C27: SetEnabled changes the enabled flag of the task and nothing else of
\* it (nextRun, lastRun, schedule and prompt stay), and a task that is
\* enabled when its nextRun has passed is returned by ListDue from then on.
C27_SetEnabledChangesOnlyTheFlag ==
    [][\A id \in DOMAIN rows, e \in BOOLEAN :
         SetEnabled(id, e) =>
            /\ rows'[id] = [rows[id] EXCEPT !.Enabled = e]
            /\ (e /\ rows[id].NextRun <= now) =>
                 \A b \in ListDue(now)' : \E k \in 1..Len(b) : b[k].ID = id]_vars

\* The poller's tick returns a once task that was executed, disabled by
\* MarkExecuted, and enabled again afterwards.
C27_Witness ==
    /\ frame["poller"].pc = "loop"
    /\ \E k \in 1..Len(batch) :
         /\ batch[k].ScheduleType = "once"
         /\ batch[k].LastRun.Valid
         /\ batch[k].Enabled
         /\ batch[k].NextRun < now

\* C28: The result of ListDue is ordered by nextRun ascending, and within a
\* tick the poller executes the tasks of the result in exactly that order:
\* what it has executed so far is the front of the result, and what it
\* executes now is the element after them.
C28_EarliestDueFirst ==
    /\ [][Ticks => \A i, j \in 1..Len(batch') :
                      i < j => batch'[i].NextRun <= batch'[j].NextRun]_vars
    /\ [](frame["poller"].pc # "idle" =>
            /\ Len(ran) <= Len(batch)
            /\ \A k \in 1..Len(ran) : ran[k].id = batch[k].ID
            /\ frame["poller"].pc # "loop" =>
                 (Len(ran) < Len(batch) /\ frame["poller"].r = batch[Len(ran) + 1]))

\* A tick that has executed two tasks, the one due earlier first.
C28_Witness ==
    /\ frame["poller"].pc = "loop"
    /\ Len(ran) = 2
    /\ Len(batch) = 2
    /\ batch[1].NextRun < batch[2].NextRun
    /\ batch[1].ID > batch[2].ID

\* C29: RunNow(id) on a stored id enters executeReminder at once with the
\* stored task, whatever its nextRun and its flag, and touches nothing else;
\* the activation goes through the steps the poller's activations go
\* through (execute, deliver once, mark), stays with that task and ends
\* when executeReminder returns; nothing but RunNow starts an execution on
\* main.  On an id that is not stored RunNow returns the not-found error
\* and executes nothing.
C29_RunNowExecutesTheNamedTask ==
    [][/\ \A id \in 1..MaxID :
            RunNow(id) =>
               IF id \in DOMAIN rows
               THEN /\ lastErr' = ""
                    /\ frame'["main"] = [IdleFrame EXCEPT !.pc = "exec", !.r = rows[id]]
                    /\ frame'["poller"] = frame["poller"]
                    /\ rows' = rows
               ELSE /\ lastErr' = "not found"
                    /\ frame' = frame
                    /\ rows' = rows
       /\ (frame["main"].pc = "idle" /\ frame'["main"].pc # "idle") =>
            \E id \in DOMAIN rows : RunNow(id)
       /\ (frame["main"].pc # "idle" /\ frame'["main"] # frame["main"]) =>
            LET f == frame["main"]
                g == frame'["main"]
            IN /\ <<f.pc, g.pc>> \in { <<"exec", "send">>, <<"send", "mark">>,
                                       <<"send", "ret">>, <<"mark", "update">>,
                                       <<"mark", "ret">>, <<"update", "ret">>,
                                       <<"ret", "idle">> }
               /\ g.pc # "idle" => g.r = f.r
               /\ g.pc = "idle" => g = IdleFrame
               /\ Len(g.sent) = IF f.pc = "send" THEN 1
                                ELSE IF g.pc = "idle" THEN 0 ELSE Len(f.sent)
               /\ \A i \in DOMAIN rows \cap DOMAIN rows' :
                    i # f.r.ID => rows'[i] = rows[i]
               /\ frame'["poller"] = frame["poller"]]_vars

\* RunNow has executed, delivered and marked a task whose nextRun was still
\* in the future, while the poller was idle.
C29_Witness ==
    /\ frame["main"].pc = "ret"
    /\ frame["main"].markCalled
    /\ ~frame["main"].markErr
    /\ frame["main"].r.NextRun > now
    /\ frame["poller"].pc = "idle"
    /\ GetByID(frame["main"].r.ID).LastRun.Valid

\* C30: The conversation in which a task's prompt runs is the task's
\* recipient, or system:reminders when the recipient is empty; the result
\* is handed to sendFunc with the task's own recipient and goes to the
\* operator when that is empty, to the group of a group: recipient and to
\* the address of a dm: recipient.
C30_ConversationAndDeliveryFollowRecipient ==
    \A g \in Goroutines :
       LET f      == frame[g]
           to     == f.r.Recipient
           colon  == IndexOf(to, ":", 1)
           prefix == SubSeq(to, 1, colon)
           rest   == SubSeq(to, colon + 1, Len(to))
       IN f.pc \in {"send", "mark", "update", "ret"} =>
            /\ f.conv = IF Len(to) = 0
                        THEN <<"s", "y", "s", "t", "e", "m", ":", "r", "e", "m", "i", "n", "d", "e", "r", "s">>
                        ELSE to
            /\ f.r.ID \in DOMAIN rows => rows[f.r.ID].Recipient = to
            /\ \A k \in 1..Len(f.sent) :
                 /\ f.sent[k].to = to
                 /\ Len(to) = 0 =>
                      f.sent[k].via = [api |-> "SendMessage", addr |-> <<"o", "p">>]
                 /\ prefix = <<"g", "r", "o", "u", "p", ":">> =>
                      f.sent[k].via = [api |-> "SendGroupMessage", addr |-> rest]
                 /\ prefix = <<"d", "m", ":">> =>
                      f.sent[k].via = [api |-> "SendMessage", addr |-> rest]

\* The poller has run and delivered a task without recipient while RunNow
\* has run and delivered a task of a group chat.
C30_Witness ==
    /\ frame["poller"].pc = "mark"
    /\ frame["poller"].r.Recipient = <<>>
    /\ Len(frame["poller"].conv) > 0
    /\ frame["main"].pc = "mark"
    /\ frame["main"].sent[1].via.api = "SendGroupMessage"

\* C39: Create of a once task stores the instant its value names (16:30 of
\* 2024-03-08 in America/Los_Angeles, 30 minutes after the epoch), whatever
\* the current instant; when that instant is not after the current one,
\* Create still succeeds, the task is in every result of ListDue from then
\* on, and a tick of the poller that finds it stored and enabled takes it
\* into its batch.
C39_OncePastInstantIsDueAtOnce ==
    [][/\ \A in \in CreateInputs :
            (in.stype = "once" /\ Create(in.stype, in.svalue, in.tz, in.recipient)) =>
               /\ lastErr' = ""
               /\ \E id \in DOMAIN rows' \ DOMAIN rows :
                    /\ rows'[id].NextRun = 30 * Minute
                    /\ rows'[id].Enabled
                    /\ now >= 30 * Minute =>
                         \A b \in ListDue(now)' : \E k \in 1..Len(b) : b[k].ID = id
       /\ Ticks =>
            \A id \in DOMAIN rows :
               (/\ rows[id].ScheduleType = "once"
                /\ rows[id].Enabled
                /\ rows[id].NextRun <= now)
                 => \E k \in 1..Len(batch') : batch'[k].ID = id]_vars

\* The poller runs a once task that was created after its instant had
\* passed and that has not run before.
C39_Witness ==
    /\ frame["poller"].pc = "exec"
    /\ frame["poller"].r.ScheduleType = "once"
    /\ frame["poller"].r.CreatedAt > frame["poller"].r.NextRun
    /\ ~frame["poller"].r.LastRun.Valid

\* C34: A stored task's nextRun and lastRun change only in the UPDATE of
\* MarkExecuted for that task; every other step (Create of another task,
\* Delete, SetEnabled, RunNow's lookup, the tick's ListDue, the execute and
\* send steps of executeReminder) leaves both fields of every task that
\* stays stored as they were, and a task enters the store without lastRun.
C34_OnlyMarkExecutedWritesRunTimes ==
    [][/\ \A id \in DOMAIN rows \cap DOMAIN rows' :
            (\/ rows'[id].NextRun # rows[id].NextRun
             \/ rows'[id].LastRun # rows[id].LastRun)
               => \E g \in Goroutines : Updates(g) /\ frame[g].mr.ID = id
       /\ \A id \in DOMAIN rows' \ DOMAIN rows : ~rows'[id].LastRun.Valid]_vars

\* A recurring task that MarkExecuted has advanced and that was disabled
\* afterwards, with its run times in place.
C34_Witness ==
    \E id \in DOMAIN rows :
       /\ rows[id].ScheduleType = "hourly"
       /\ rows[id].LastRun.Valid
       /\ rows[id].NextRun > rows[id].LastRun.Time
       /\ ~rows[id].Enabled
       /\ frame["poller"].pc = "idle"
       /\ frame["main"].pc = "idle"

\* C38: When the poller starts executing a task of its batch, that task is
\* stored and enabled at that moment.
C38_PollerSkipsDisabledAndDeleted ==
    [][(frame["poller"].pc = "loop" /\ frame'["poller"].pc = "exec") =>
          LET id == frame'["poller"].r.ID IN
          id \in DOMAIN rows /\ rows[id].Enabled]_vars

\* ------------------------------------------------------------------------
\* The orchestration loop: a failed LLM call
\* ------------------------------------------------------------------------

\* C40: When llm.Chat fails in a round, HandleMessage returns the wrapped
\* error in that very step: nothing is dispatched and nothing is persisted
\* by it, so the stored history is what the persisting of the user message
\* left (ending with the user message when that succeeded); and nothing but
\* the user message before the loop and the final answer is ever persisted:
\* the stored history holds no tool entry and no assistant entry that
\* carries tool calls, and it does not change while the loop runs.
C40_ChatFailureAbortsTheTurn ==
    /\ [][(hpc = "chat" /\ hpc' = "idle") =>
            /\ hret'.done /\ hret'.err
            /\ Len(hret'.errText) > 0 /\ hret'.errText[1] = "llm chat: "
            /\ hret'.text = <<>>
            /\ memory' = memory
            /\ messages' = messages
            /\ hdisp' = hdisp /\ tci' = tci
            /\ ~hcall.addErr =>
                 (Len(memory') > 0 /\ memory'[Len(memory')] = Msg("user", hcall.user))]_vars
    /\ [][(hpc \in {"history", "chat", "tools"}) => (memory' = memory)]_vars
    /\ [](\A k \in 1..Len(memory) :
            /\ memory[k].Role \in {"user", "assistant"}
            /\ memory[k].ToolCalls = <<>>)

\* llm.Chat has failed in a round after one in which tools were dispatched,
\* and the stored history ends with the user message of the turn.
C40_Witness ==
    /\ hpc = "idle"
    /\ hret.done /\ hret.err
    /\ round >= 2
    /\ Len(messages) >= 4
    /\ memory[Len(memory)] = Msg("user", hcall.user)

\* ------------------------------------------------------------------------
\* Stopping and starting the process
\* ------------------------------------------------------------------------

C35_SummaryOncePerDay ==
    /\ [](LET wall(t) == Wall("America/Los_Angeles", t) IN
          \A a \in sched.sent :
             /\ (wall(a) % Day) \div Hour = sched.hour
             /\ \A b \in sched.sent : a # b => wall(a) \div Day # wall(b) \div Day)
    /\ [][(sched'.lastSent # sched.lastSent) =>
             /\ checkAndSend("ok", "ok")
             /\ sched'.lastSent = now
             /\ sched'.sent = sched.sent \cup {now}
             /\ now \notin sched.sent]_vars
    /\ [][((\E eo \in Outcomes : checkAndSend("err", eo)) \/ checkAndSend("ok", "err"))
             => (sched'.lastSent = sched.lastSent /\ sched'.sent = sched.sent)]_vars
    /\ [][LET wall(t) == Wall("America/Los_Angeles", t) IN
          (/\ \E so \in Outcomes, eo \in Outcomes : checkAndSend(so, eo)
           /\ (wall(now) % Day) \div Hour = sched.hour
           /\ \A a \in sched.sent : wall(a) \div Day # wall(now) \div Day)
             => now \in sched'.called]_vars

\* Summaries were sent on two days, one of them at the second tick of its
\* hour after the first tick's attempt had failed.
C35_Witness ==
    LET day(t) == Wall("America/Los_Angeles", t) \div Day IN
    /\ Cardinality(sched.sent) = 2
    /\ \E a \in sched.called \ sched.sent, b \in sched.sent :
          day(a) = day(b) /\ a < b

\* C32: After cancel() both Start functions return in the end, a Start that
\* has returned begins no due-check, and a due-check in flight at cancel()
\* is not cut off: it returns to its select.
C32_CancelStopsAllTriggers ==
    /\ ctxDone ~> (tpc["reminder"] = "returned" /\ tpc["summary"] = "returned")
    /\ [][\A t \in {"reminder", "summary"} :
             tpc[t] = "returned" => tpc'[t] = "returned"]_vars
    /\ \A t \in {"reminder", "summary"} :
          (ctxDone /\ tpc[t] = "check") ~> (tpc[t] = "select")

\* The part of C32 that is about a Start that saw the cancellation: it has
\* returned, and begins no due-check.
ReturnedStartBeginsNoCheck ==
    [][\A t \in {"reminder", "summary"} :
          tpc[t] = "returned" => tpc'[t] = "returned"]_vars

\* ------------------------------------------------------------------------
\* One execution at a time
\* ------------------------------------------------------------------------

DispatchesOneCallAtATime ==
    [][(hpc = "tools" /\ (tci' # tci \/ hdisp' # hdisp)) =>
          /\ tci' = tci + 1
          /\ hdisp' \in DispatchResults(resp.ToolCalls[tci])
          /\ Len(messages') = Len(messages) + 1
          /\ messages'[Len(messages')].ToolCallID = resp.ToolCalls[tci].ID]_vars

\* ------------------------------------------------------------------------
\* The message loop and the shared tool
\* ------------------------------------------------------------------------

\* C36: A message is handed to the handler, and answered, only when the
\* operator's account sent it, and a group message only when its text
\* starts with the keyword and a space, which is taken off the text that is
\* handled; a message that is not handled gets no reply.
C36_OnlyTheOperatorIsServed ==
    (lastMsg.handled \/ lastMsg.reply # <<>>) =>
       /\ lastMsg.handled
       /\ lastMsg.msg.sender = "operator"
       /\ lastMsg.msg.IsGroup =>
             /\ Len(lastMsg.msg.Message) >= 2
             /\ SubSeq(lastMsg.msg.Message, 1, 2) = <<"t", " ">>
             /\ <<"t", " ">> \o lastMsg.text = lastMsg.msg.Message

\* C37: The reminder an add stored has the conversation of the run that
\* made the tool call as its recipient.
C37_AddStoresTheCallersConversation ==
    lastAdd.made => lastAdd.recipient = lastAdd.conv

====
